---- MODULE Spec2Model ----
(***************************************************************************)
(* A model of the data-synchronisation layer of the VeryFomo chat client:  *)
(* the chat registry (checkExistingChat / createChat / contacts startChat),*)
(* the message channel (sendMessage / useMessages) and the backend store   *)
(* with its access rules.                                                  *)
(*                                                                         *)
(* User ids are modelled by their rank in JavaScript's default string      *)
(* order, so Array.prototype.sort() on ids is a sort on these ranks.       *)
(* Every await is a separate step: other clients run between the steps.    *)
(***************************************************************************)
EXTENDS Integers, Sequences, FiniteSets, TLC

\* ------------------------------------------------------------- bounds
NumUsers   == 2
NumClients == 2
MaxLen     == 2
MaxChats   == 2
MaxMsgs    == 3
MaxTime    == 2
MaxRooms   == 1
MaxCalls   == 3
MaxListeners == 2

Uids      == 1..NumUsers
Clients   == 1..NumClients
ChatIds   == 1..MaxChats
MsgIds    == 1..MaxMsgs
Times     == 1..MaxTime
RoomIds   == 1..MaxRooms
Texts     == {"hi"}
Names     == {"Ann"}

\* getCurrentUser() returns null when nobody is signed in.
NoUser == 0
\* An empty chatId ('' or undefined).
NoChat == 0
\* AsyncStorage.getItem('device_id') of a key never set: null.
NoDevice == 0

\* senderId 'system' of the chat-created message: a sender that is no user id.
SystemSender == NumUsers + 1
SystemName   == "System"
WelcomeText  == "Chat created. Say hello!"

VARIABLES
  chats,          \* the chats collection: chat id -> document
  messages,       \* the messages collection: message id -> document
  currentUser,    \* auth.currentUser of each client (NoUser = null)
  authName,       \* the auth profile's displayName of each identity ("" = unset)
  pc,             \* where each client's running operation is suspended
  via,            \* the outer operation: "createChat" | "startChat" | "sendMessage" ...
  participantIds, \* createChat's participantIds array (after the push)
  sortedIds,      \* sortedParticipantIds of the running find-or-create
  names,          \* createChat's participantNames object
  target,         \* the chat id the running operation works on
  draft,          \* the message document the running operation is adding
  sent,           \* id of the message the running sendMessage added
  ret,            \* the chat id a find-or-create resolved to
  lookupErr,      \* the running find-or-create had a lookup query fail
  overwritten,    \* another update of the same chat landed after this send's update
  hook,           \* the mounted useMessages hook
  users,          \* the users collection: identity -> profile document
  account,        \* how each identity was created in the auth backend
  localName,      \* displayName of the User object each device holds
  loading,        \* the AuthProvider's loading state on each device
  ctxUser,        \* the AuthProvider's user state on each device
  op,             \* the AuthProvider call running on each device
  ups,            \* the createOrUpdateUserDocument calls running on each device
  queue,          \* each device's writes issued and not yet applied, in order
  calls,          \* the AuthProvider calls started so far
  uhook,          \* the mounted useUsers hook (contacts screen)
  chook,          \* the mounted useChats hook (chats screen)
  nhook,          \* the new-chat screen and the listeners it registered
  asyncStorage,   \* AsyncStorage of each device: the keys device_id and user_auth_state
  hardware        \* the id each device composes of its name, model and OS build

vars == << chats, messages, currentUser, authName, pc, via, participantIds,
           sortedIds, names, target, draft, sent, ret, lookupErr, overwritten,
           hook, users, account, localName, loading, ctxUser, op, ups, queue,
           calls, uhook, chook, nhook, asyncStorage, hardware >>

\* The state of the backend store, of the sessions, and of the running calls.
store   == << chats, messages >>
session == << currentUser, authName >>
locals  == << pc, via, participantIds, sortedIds, names, target, draft, sent,
              ret, lookupErr, overwritten >>
identity == << users, account, localName, loading, ctxUser, op, ups, queue, calls >>
lists   == << uhook, chook, nhook >>
device  == << asyncStorage, hardware >>

\* ------------------------------------------------------------ helpers

Range(s) == { s[i] : i \in DOMAIN s }

\* `User-${uid.substring(0, 5)}`
Placeholder(uid) == "User-" \o ToString(uid)

\* currentUser.displayName || `User-${currentUser.uid.substring(0, 5)}`
DisplayNameOf(uid) == IF authName[uid] # "" THEN authName[uid] ELSE Placeholder(uid)

\* Array.prototype.sort() with the default comparator (insertion into a sorted list).
RECURSIVE InsertSorted(_, _)
InsertSorted(x, s) ==
  IF s = <<>> THEN <<x>>
  ELSE IF x <= Head(s) THEN <<x>> \o s
  ELSE <<Head(s)>> \o InsertSorted(x, Tail(s))

\* sort() left out: the ids are used in the order they were passed.
SortIdsUnsorted(s) == s

RECURSIVE SortIds(_)
SortIds(s) == IF s = <<>> THEN <<>> ELSE InsertSorted(Head(s), SortIds(Tail(s)))

\* All participant lists a caller can pass, up to MaxLen ids long.
IdLists == UNION { [1..n -> Uids] : n \in 0..MaxLen }

\* participantIds.includes(uid)
Includes(s, x) == x \in Range(s)

NoLastMessage == <<>>

\* The account a device's owner signs in with.
HomeUser(p) == IF p \in Uids THEN p ELSE NoUser

\* ------------------------------------------------------- access rules

\* match /chats/{chatId}: allow create
ChatsAllowCreate(uid, doc) == uid # NoUser /\ Includes(doc.participants, uid)

\* match /chats/{chatId}: allow read, write (on the stored document)
ChatsAllowWrite(uid, id) ==
  uid # NoUser /\ id \in DOMAIN chats /\ Includes(chats[id].participants, uid)

\* match /chats/{chatId}: allow read, for the query where('participants', '==',
\* key): granted when every document it can return has the caller in it.
ChatsAllowQuery(uid, key) == uid # NoUser /\ Includes(key, uid)

\* A create rule that asks for a signed-in caller and an existing chat only.
MessagesAllowCreateSignedIn(uid, doc) == uid # NoUser /\ doc.chatId \in DOMAIN chats

\* A create rule that asks for a signed-in caller only.
MessagesAllowCreateAnyChat(uid, doc) == uid # NoUser

\* match /messages/{messageId}: allow create
MessagesAllowCreate(uid, doc) ==
  /\ uid # NoUser
  /\ doc.chatId \in DOMAIN chats
  /\ Includes(chats[doc.chatId].participants, uid)

\* match /messages/{messageId}: allow read
MessagesAllowRead(uid, chatId) ==
  /\ uid # NoUser
  /\ chatId \in DOMAIN chats
  /\ Includes(chats[chatId].participants, uid)

\* A rule granting a chat's participants update and delete of its messages.
MessagesAllowModifyByParticipant(uid, id) ==
  /\ uid # NoUser
  /\ id \in DOMAIN messages
  /\ messages[id].chatId \in DOMAIN chats
  /\ Includes(chats[messages[id].chatId].participants, uid)

\* match /messages/{messageId}: no rule grants update or delete
MessagesAllowModify(uid, id) == FALSE

\* ------------------------------------------------------------ queries

\* query(chats, where('participants', '==', sortedParticipantIds), limit(1)):
\* the matching documents, and docs[0] of the result (lowest document id).
MatchingChats(key) == { id \in DOMAIN chats : chats[id].participants = key }

FirstChat(S) == CHOOSE id \in S : \A other \in S : id <= other

\* checkExistingChat: the id found, or null (NoChat); a failed query is caught
\* and also answers null.
CheckExistingChat(ids, failed) ==
  LET sortedParticipantIds == SortIds(ids)
      found == MatchingChats(sortedParticipantIds)
  IN  IF failed THEN NoChat
      ELSE IF found # {} THEN FirstChat(found)
      ELSE NoChat

\* query(messages, where('chatId', '==', chatId), orderBy('createdAt', 'desc')):
\* newest first; equal timestamps in descending document id order.
MessagesOf(chatId) == { id \in DOMAIN messages : messages[id].chatId = chatId }

\* orderBy('createdAt', 'desc') left out: documents in the order they were added.
AddedEarlier(a, b) == a < b

Newer(a, b) ==
  \/ messages[a].createdAt > messages[b].createdAt
  \/ messages[a].createdAt = messages[b].createdAt /\ a > b

\* The i-th document of the result is the one with i - 1 documents before it.
OrderByCreatedAtDesc(S) ==
  [ i \in 1..Cardinality(S) |->
      CHOOSE a \in S : Cardinality({ b \in S : Newer(b, a) }) = i - 1 ]

\* The Message object the snapshot callback builds from one document.
ToMessage(id) ==
  LET data == messages[id]
  IN  [ id         |-> id,
        text       |-> data.text,
        createdAt  |-> data.createdAt,
        senderId   |-> data.senderId,
        senderName |-> IF data.senderName # "" THEN data.senderName
                       ELSE Placeholder(data.senderId),
        chatId     |-> data.chatId ]

\* The messageList of one snapshot: snapshot.forEach pushes in query order.
SnapshotMessages(chatId) ==
  LET order == OrderByCreatedAtDesc(MessagesOf(chatId))
  IN  [ i \in DOMAIN order |-> ToMessage(order[i]) ]

\* --------------------------------------------------------------- Init

NoDraft == [ text |-> "", createdAt |-> 0, senderId |-> NoUser, senderName |-> "", chatId |-> NoChat ]

HookOff ==
  [ chatId |-> NoChat, owner |-> 1, status |-> "off", loading |-> TRUE,
    messages |-> <<>>, error |-> FALSE ]

\* The state of the AuthProvider once it is mounted and the first auth-state
\* event (no user) has been handled. A profile document that does not exist,
\* an idle createOrUpdateUserDocument slot and an idle AuthProvider call. Of a
\* profile only displayName and devices are kept ("" and <<>>: the field is absent).
NoProfile == [ exists |-> FALSE, displayName |-> "", devices |-> <<>> ]

NoWrite == [ displayName |-> "", hasDevices |-> FALSE, devices |-> <<>> ]

UpsertOff ==
  [ pc |-> "off", uid |-> NoUser, extra |-> "none", name |-> "",
    data |-> NoWrite ]

OpNone ==
  [ kind |-> "none", pc |-> "none", uid |-> NoUser, name |-> "", found |-> NoUser,
    tries |-> 0, deviceId |-> NoDevice ]

\* The device whose screens are followed.
Viewer == 1

\* useUsers before its first effect: useState([]), useState(true), useState(null).
\* me is the currentUser the effect last ran with, seen the context value of
\* the last render.
UsersOff ==
  [ status |-> "off", me |-> NoUser, users |-> <<>>, loading |-> TRUE,
    error |-> FALSE, seen |-> << NoUser, FALSE >> ]

\* useChats before its effect.
ChatsOff ==
  [ status |-> "off", me |-> NoUser, chats |-> <<>>, loading |-> TRUE, error |-> FALSE ]

\* The new-chat screen before its effect; subs are the onSnapshot listeners
\* registered and not unsubscribed, each with the user of its closure.
NewChatOff ==
  [ mounted |-> FALSE, user |-> NoUser, subs |-> <<>>, loading |-> TRUE,
    late |-> FALSE, users |-> {} ]

InitLists ==
  /\ uhook = UsersOff
  /\ chook = ChatsOff
  /\ nhook = NewChatOff

\* The two createOrUpdateUserDocument calls a device can have running: the one
\* of the auth-state listener and the one of the AuthProvider call.
Slots == {"listener", "call"}

InitIdentity ==
  /\ users = [ u \in Uids |-> NoProfile ]
  /\ account = [ u \in Uids |-> "none" ]
  /\ localName = [ p \in Clients |-> "" ]
  /\ loading = [ p \in Clients |-> FALSE ]
  /\ ctxUser = [ p \in Clients |-> NoUser ]
  /\ op = [ p \in Clients |-> OpNone ]
  /\ ups = [ p \in Clients |-> [ k \in Slots |-> UpsertOff ] ]
  /\ queue = [ p \in Clients |-> <<>> ]
  /\ calls = 0
  /\ asyncStorage = [ p \in Clients |->
                       [ device_id |-> NoDevice, user_auth_state |-> currentUser[p] ] ]
  /\ hardware = [ p \in Clients |-> p ]

InitChat ==
  /\ chats = << >>
  /\ messages = << >>
  /\ currentUser = [ p \in Clients |-> NoUser ]
  /\ authName = [ u \in Uids |-> "" ]
  /\ pc = [ p \in Clients |-> "idle" ]
  /\ via = [ p \in Clients |-> "none" ]
  /\ participantIds = [ p \in Clients |-> <<>> ]
  /\ sortedIds = [ p \in Clients |-> <<>> ]
  /\ names = [ p \in Clients |-> << >> ]
  /\ target = [ p \in Clients |-> NoChat ]
  /\ draft = [ p \in Clients |-> NoDraft ]
  /\ sent = [ p \in Clients |-> 0 ]
  /\ ret = [ p \in Clients |-> NoChat ]
  /\ lookupErr = [ p \in Clients |-> FALSE ]
  /\ overwritten = [ p \in Clients |-> FALSE ]
  /\ hook = HookOff
  /\ InitIdentity
  /\ InitLists

\* A call is over: its local state is dropped, its outcome stays in pc until
\* the caller goes on.
Finish(p, outcome) ==
  /\ pc' = [pc EXCEPT ![p] = outcome]
  /\ via' = [via EXCEPT ![p] = "none"]
  /\ participantIds' = [participantIds EXCEPT ![p] = <<>>]
  /\ sortedIds' = [sortedIds EXCEPT ![p] = <<>>]
  /\ names' = [names EXCEPT ![p] = << >>]
  /\ target' = [target EXCEPT ![p] = NoChat]
  /\ draft' = [draft EXCEPT ![p] = NoDraft]
  /\ sent' = [sent EXCEPT ![p] = 0]
  /\ lookupErr' = [lookupErr EXCEPT ![p] = FALSE]

\* The caller goes on after the call has resolved or rejected.
Continue(p) ==
  /\ pc[p] \in {"returned", "rejected", "logged", "denied", "smDone"}
  /\ Finish(p, "idle")
  /\ ret' = [ret EXCEPT ![p] = NoChat]
  /\ overwritten' = [overwritten EXCEPT ![p] = FALSE]
  /\ UNCHANGED << device, store, session, hook, identity, lists >>

\* ------------------------------------------------- session (chat layer)

\* auth.currentUser changes: a sign-out (u = NoUser) or a sign-in as u. The
\* user signs in and out between the client's calls: a request of a running
\* call that the new session makes the rules refuse ends as a rejected one does.
AuthStateChanged(p, u) ==
  /\ currentUser[p] # u
  /\ pc[p] = "idle"
  /\ currentUser' = [currentUser EXCEPT ![p] = u]
  /\ asyncStorage' = [asyncStorage EXCEPT ![p].user_auth_state = u]
  /\ UNCHANGED << hardware, store, authName, locals, hook, identity, lists >>

\* updateProfile(currentUser, { displayName: name })
UpdateProfileName(p, n) ==
  /\ currentUser[p] # NoUser
  /\ authName[currentUser[p]] # n
  /\ authName' = [authName EXCEPT ![currentUser[p]] = n]
  /\ UNCHANGED << device, store, currentUser, locals, hook, identity, lists >>

\* ------------------------------------------------------ chat registry

InFindOrCreate(q) == pc[q] \in {"scLookup", "ccLookup", "ccInsert", "ccWelcome"}

\* How a rejection ends: createChat and sendMessage rethrow to their caller;
\* the contacts screen's startChat catches and only logs.
Rejection(outer) == IF outer = "startChat" THEN "logged" ELSE "rejected"

\* The names a screen passes: the display names it shows for the given ids.
NamesFor(ids) == [ u \in Range(ids) |-> DisplayNameOf(u) ]

\* A createChat that pushes the caller's id and adds no name for it.
CreateChatEnterNoName(p, ids, nm, outer) ==
  LET cu == currentUser[p]
      ids2 == IF Includes(ids, cu) THEN ids ELSE Append(ids, cu)
  IN  IF cu = NoUser
      THEN Finish(p, Rejection(outer))
      ELSE /\ pc' = [pc EXCEPT ![p] = "ccLookup"]
           /\ via' = [via EXCEPT ![p] = outer]
           /\ participantIds' = [participantIds EXCEPT ![p] = ids2]
           /\ sortedIds' = [sortedIds EXCEPT ![p] = SortIds(ids2)]
           /\ names' = [names EXCEPT ![p] = nm]
           /\ UNCHANGED << target, draft, sent, lookupErr >>

\* createChat up to its first await: the signed-in check, the push of the
\* caller's id, the sort, and the lookup query being issued.
CreateChatEnter(p, ids, nm, outer) ==
  LET cu == currentUser[p]
      has == Includes(ids, cu)
      ids2 == IF has THEN ids ELSE Append(ids, cu)
      nm2 == IF has THEN nm ELSE (cu :> DisplayNameOf(cu)) @@ nm
  IN  IF cu = NoUser
      THEN Finish(p, Rejection(outer))
      ELSE /\ pc' = [pc EXCEPT ![p] = "ccLookup"]
           /\ via' = [via EXCEPT ![p] = outer]
           /\ participantIds' = [participantIds EXCEPT ![p] = ids2]
           /\ sortedIds' = [sortedIds EXCEPT ![p] = SortIds(ids2)]
           /\ names' = [names EXCEPT ![p] = nm2]
           /\ UNCHANGED << target, draft, sent, lookupErr >>

\* A direct createChat(participantIds, participantNames) call.
CreateChat(p, ids) ==
  /\ pc[p] = "idle"
  /\ CreateChatEnter(p, ids, NamesFor(ids), "createChat")
  /\ UNCHANGED << device, store, session, ret, overwritten, hook, identity, lists >>

\* The new-chat screen's startChat(selectedUser): createChat with the pair
\* [user.uid, selectedUser.uid]; its catch alerts the user.
NewChat(p, selected) ==
  /\ pc[p] = "idle"
  /\ currentUser[p] # NoUser
  /\ CreateChatEnter(p, <<currentUser[p], selected>>,
                     NamesFor(<<currentUser[p], selected>>), "newChat")
  /\ UNCHANGED << device, store, session, ret, overwritten, hook, identity, lists >>

\* The contacts screen's startChat(userId, displayName) up to its first await.
\* The screen lists useUsers(), which leaves the current user out.
StartChat(p, userId) ==
  /\ pc[p] = "idle"
  /\ currentUser[p] # NoUser
  /\ userId # currentUser[p]
  /\ pc' = [pc EXCEPT ![p] = "scLookup"]
  /\ via' = [via EXCEPT ![p] = "startChat"]
  /\ participantIds' = [participantIds EXCEPT ![p] = SortIds(<<currentUser[p], userId>>)]
  /\ sortedIds' = [sortedIds EXCEPT ![p] = SortIds(<<currentUser[p], userId>>)]
  /\ UNCHANGED << device, store, session, names, target, draft, sent, ret, lookupErr,
                  overwritten, hook, identity, lists >>

\* startChat's own checkExistingChat answers: navigate to the chat found, or
\* call createChat with the sorted pair.
StartChatLookup(p, failed) ==
  /\ pc[p] = "scLookup"
  /\ LET refused == ~ChatsAllowQuery(currentUser[p], SortIds(participantIds[p]))
         existingChatId == CheckExistingChat(participantIds[p], failed \/ refused)
     IN  IF existingChatId # NoChat
         THEN /\ Finish(p, "returned")
              /\ ret' = [ret EXCEPT ![p] = existingChatId]
         ELSE /\ CreateChatEnter(p, participantIds[p],
                                 NamesFor(participantIds[p]), "startChat")
              /\ UNCHANGED ret
  /\ UNCHANGED << device, store, session, overwritten, hook, identity, lists >>

\* createChat's checkExistingChat answers: return the chat found, or go on to
\* create one.
CreateChatLookup(p, failed) ==
  /\ pc[p] = "ccLookup"
  /\ LET refused == ~ChatsAllowQuery(currentUser[p], sortedIds[p])
         existingChatId == CheckExistingChat(sortedIds[p], failed \/ refused)
     IN  IF existingChatId # NoChat
         THEN /\ Finish(p, "returned")
              /\ ret' = [ret EXCEPT ![p] = existingChatId]
         ELSE /\ pc' = [pc EXCEPT ![p] = "ccInsert"]
              /\ lookupErr' = [lookupErr EXCEPT ![p] = failed \/ refused]
              /\ participantIds' = [participantIds EXCEPT ![p] = <<>>]
              /\ UNCHANGED << via, sortedIds, names, target, draft, sent, ret >>
  /\ UNCHANGED << device, store, session, overwritten, hook, identity, lists >>

\* The chat document createChat builds.
ChatData(p, now) ==
  [ participants     |-> sortedIds[p],
    participantNames |-> names[p],
    createdAt        |-> now,
    updatedAt        |-> now,
    lastMessage      |-> NoLastMessage ]

\* A welcome message stamped one tick after the chat.
WelcomeMessageLater(id, now) ==
  [ text |-> WelcomeText, createdAt |-> now + 1, senderId |-> SystemSender,
    senderName |-> SystemName, chatId |-> id ]

\* The system message createChat adds for the new chat.
WelcomeMessage(id, now) ==
  [ text |-> WelcomeText, createdAt |-> now, senderId |-> SystemSender,
    senderName |-> SystemName, chatId |-> id ]

\* addDoc(collection(firestore, 'chats'), chatData) is applied, or rejected.
CreateChatInsert(p, id, now, ok) ==
  /\ pc[p] = "ccInsert"
  /\ id \notin DOMAIN chats
  /\ IF ok /\ ChatsAllowCreate(currentUser[p], ChatData(p, now))
     THEN /\ chats' = (id :> ChatData(p, now)) @@ chats
          /\ pc' = [pc EXCEPT ![p] = "ccWelcome"]
          /\ target' = [target EXCEPT ![p] = id]
          /\ draft' = [draft EXCEPT ![p] = WelcomeMessage(id, now)]
          /\ names' = [names EXCEPT ![p] = << >>]
          /\ lookupErr' = [lookupErr EXCEPT ![p] = FALSE]
          /\ UNCHANGED << via, participantIds, sortedIds, sent >>
     ELSE /\ Finish(p, Rejection(via[p]))
          /\ UNCHANGED chats
  /\ UNCHANGED << device, messages, session, ret, overwritten, hook, identity, lists >>

\* The next free message id.
NextMsgId == CHOOSE mid \in MsgIds \ DOMAIN messages :
                \A other \in MsgIds \ DOMAIN messages : mid <= other

\* addDoc(collection(firestore, 'messages'), welcomeMessage) is applied, or
\* rejected; on success createChat returns chatRef.id.
CreateChatWelcome(p, ok) ==
  /\ pc[p] = "ccWelcome"
  /\ MsgIds \ DOMAIN messages # {}
  /\ IF ok /\ MessagesAllowCreate(currentUser[p], draft[p])
     THEN /\ messages' = (NextMsgId :> draft[p]) @@ messages
          /\ Finish(p, "returned")
          /\ ret' = [ret EXCEPT ![p] = target[p]]
     ELSE /\ Finish(p, Rejection(via[p]))
          /\ UNCHANGED << messages, ret >>
  /\ UNCHANGED << device, chats, session, overwritten, hook, identity, lists >>

\* ---------------------------------------------------- message channel

\* messageData with senderName taken from the auth profile as it is.
MessageDataBareName(p, chatId, text, now) ==
  [ text |-> text, createdAt |-> now, senderId |-> currentUser[p],
    senderName |-> authName[currentUser[p]], chatId |-> chatId ]

\* messageData: the sender is the user signed in when sendMessage starts.
MessageData(p, chatId, text, now) ==
  [ text |-> text, createdAt |-> now, senderId |-> currentUser[p],
    senderName |-> DisplayNameOf(currentUser[p]), chatId |-> chatId ]

\* sendMessage(chatId, text) up to its first await: the signed-in check,
\* now = new Date(), messageData, and the addDoc being issued.
\* A sendMessage without the signed-in check: it goes on to its insert.
SendMessageUnchecked(p, chatId, text, now) ==
  /\ pc[p] = "idle"
  /\ pc' = [pc EXCEPT ![p] = "smAdd"]
  /\ via' = [via EXCEPT ![p] = "sendMessage"]
  /\ target' = [target EXCEPT ![p] = chatId]
  /\ draft' = [draft EXCEPT ![p] =
       [ text |-> text, createdAt |-> now, senderId |-> currentUser[p],
         senderName |-> Placeholder(currentUser[p]), chatId |-> chatId ]]
  /\ UNCHANGED << device, participantIds, sortedIds, names, sent, lookupErr >>
  /\ UNCHANGED << device, store, session, ret, overwritten, hook, identity, lists >>

SendMessage(p, chatId, text, now) ==
  /\ pc[p] = "idle"
  /\ IF currentUser[p] = NoUser
     THEN Finish(p, "rejected")
     ELSE /\ pc' = [pc EXCEPT ![p] = "smAdd"]
          /\ via' = [via EXCEPT ![p] = "sendMessage"]
          /\ target' = [target EXCEPT ![p] = chatId]
          /\ draft' = [draft EXCEPT ![p] = MessageData(p, chatId, text, now)]
          /\ UNCHANGED << participantIds, sortedIds, names, sent, lookupErr >>
  /\ UNCHANGED << device, store, session, ret, overwritten, hook, identity, lists >>

\* addDoc(collection(firestore, 'messages'), messageData) is applied, or rejected.
SendMessageAdd(p, ok) ==
  /\ pc[p] = "smAdd"
  /\ MsgIds \ DOMAIN messages # {}
  /\ IF ok /\ MessagesAllowCreate(currentUser[p], draft[p])
     THEN /\ messages' = (NextMsgId :> draft[p]) @@ messages
          /\ sent' = [sent EXCEPT ![p] = NextMsgId]
          /\ pc' = [pc EXCEPT ![p] = "smUpdate"]
          /\ UNCHANGED << via, participantIds, sortedIds, names, target, draft, lookupErr >>
     ELSE /\ Finish(p, "rejected")
          /\ UNCHANGED messages
  /\ UNCHANGED << device, chats, session, ret, overwritten, hook, identity, lists >>

\* The fields updateDoc(doc(firestore, 'chats', chatId), ...) writes.
LastMessageOf(d) ==
  << [ text |-> d.text, createdAt |-> d.createdAt, senderId |-> d.senderId ] >>

\* An update that leaves lastMessage as it was.
ChatUpdateTimeOnly(doc, d) == [doc EXCEPT !.updatedAt = d.createdAt]

\* An update that also refreshes the sender's entry of participantNames.
ChatUpdateRenaming(doc, d) ==
  [doc EXCEPT !.lastMessage = LastMessageOf(d), !.updatedAt = d.createdAt,
              !.participantNames = (d.senderId :> d.senderName) @@ @]

ChatUpdate(doc, d) ==
  [doc EXCEPT !.lastMessage = LastMessageOf(d), !.updatedAt = d.createdAt]

\* updateDoc(doc(firestore, 'chats', chatId), { lastMessage, updatedAt }) is
\* applied by the backend, or rejected (no such document, permission, network).
SendMessageUpdate(p, ok) ==
  /\ pc[p] = "smUpdate"
  /\ IF ok /\ ChatsAllowWrite(currentUser[p], target[p])
     THEN /\ chats' = [chats EXCEPT ![target[p]] = ChatUpdate(@, draft[p])]
          /\ pc' = [pc EXCEPT ![p] = "smAck"]
          /\ overwritten' =
               [ q \in Clients |->
                   IF q # p /\ pc[q] \in {"smAck", "smDone"} /\ target[q] = target[p]
                   THEN TRUE ELSE overwritten[q] ]
          /\ UNCHANGED << via, participantIds, sortedIds, names, target, draft,
                          sent, lookupErr >>
     ELSE /\ Finish(p, "rejected")
          /\ UNCHANGED << chats, overwritten >>
  /\ UNCHANGED << device, messages, session, ret, hook, identity, lists >>

\* The update's acknowledgement reaches the client: sendMessage resolves.
SendMessageResolve(p) ==
  /\ pc[p] = "smAck"
  /\ pc' = [pc EXCEPT ![p] = "smDone"]
  /\ UNCHANGED << device, store, session, via, participantIds, sortedIds, names, target,
                  draft, sent, ret, lookupErr, overwritten, hook, identity, lists >>

\* A client request to update or delete a stored message: the access rules decide.
ModifyMessage(p, mid, remove) ==
  /\ pc[p] = "idle"
  /\ mid \in DOMAIN messages
  /\ IF MessagesAllowModify(currentUser[p], mid)
     THEN /\ messages' = IF remove
                         THEN [ m \in DOMAIN messages \ {mid} |-> messages[m] ]
                         ELSE [messages EXCEPT ![mid].text = ""]
          /\ Finish(p, "returned")
     ELSE /\ Finish(p, "denied")
          /\ UNCHANGED messages
  /\ UNCHANGED << device, chats, session, ret, overwritten, hook, identity, lists >>

\* ------------------------------------------------- useMessages(chatId)

\* The effect runs with a non-empty chatId: onSnapshot(q, ...) is registered.
MountMessages(p, chatId) ==
  /\ hook.status = "off"
  /\ hook' = [ chatId |-> chatId, owner |-> p, status |-> "live",
               loading |-> TRUE, messages |-> <<>>, error |-> FALSE ]
  /\ UNCHANGED << device, store, session, locals, identity, lists >>

\* The snapshot callback: the whole current result replaces the list. A
\* listener the rules refuse gets the error callback instead.
DeliverMessages ==
  /\ hook.status = "live"
  /\ \/ hook.loading
     \/ hook.messages # SnapshotMessages(hook.chatId)
     \/ ~MessagesAllowRead(currentUser[hook.owner], hook.chatId)
  /\ IF MessagesAllowRead(currentUser[hook.owner], hook.chatId)
     THEN hook' = [hook EXCEPT !.messages = SnapshotMessages(hook.chatId),
                               !.loading = FALSE]
     ELSE hook' = [hook EXCEPT !.status = "error", !.error = TRUE, !.loading = FALSE]
  /\ UNCHANGED << device, store, session, locals, identity, lists >>

\* The error callback after a stream failure: setError, setLoading(false).
MessagesStreamError ==
  /\ hook.status = "live"
  /\ hook' = [hook EXCEPT !.status = "error", !.error = TRUE, !.loading = FALSE]
  /\ UNCHANGED << device, store, session, locals, identity, lists >>

\* The effect's cleanup: unsubscribe().
UnmountMessages ==
  /\ hook.status # "off"
  /\ hook' = HookOff
  /\ UNCHANGED << device, store, session, locals, identity, lists >>

\* ------------------------------------------------ utils/testAuth.ts

\* sendTestMessage(chatId, senderId, senderName, text) up to its addDoc. The
\* utility takes the sender as an argument and leaves createdAt to the server
\* (0 until the server has set it).
SendTestMessage(p, chatId, senderId, text) ==
  /\ pc[p] = "idle"
  /\ pc' = [pc EXCEPT ![p] = "stAdd"]
  /\ via' = [via EXCEPT ![p] = "sendTestMessage"]
  /\ target' = [target EXCEPT ![p] = chatId]
  /\ draft' = [draft EXCEPT ![p] =
       [ text |-> text, createdAt |-> 0, senderId |-> senderId,
         senderName |-> Placeholder(senderId), chatId |-> chatId ]]
  /\ UNCHANGED << device, store, session, participantIds, sortedIds, names, sent, ret, lookupErr,
                  overwritten, hook, identity, lists >>

\* addDoc(collection(firestore, 'messages'), messageData) is committed at
\* server time now (createdAt: serverTimestamp()), or rejected.
SendTestMessageAdd(p, now, ok) ==
  /\ pc[p] = "stAdd"
  /\ MsgIds \ DOMAIN messages # {}
  /\ IF ok /\ MessagesAllowCreate(currentUser[p], draft[p])
     THEN /\ messages' = (NextMsgId :> [draft[p] EXCEPT !.createdAt = now]) @@ messages
          /\ draft' = [draft EXCEPT ![p].createdAt = now]
          /\ sent' = [sent EXCEPT ![p] = NextMsgId]
          /\ pc' = [pc EXCEPT ![p] = "stUpdate"]
          /\ UNCHANGED << via, participantIds, sortedIds, names, target, lookupErr >>
     ELSE /\ Finish(p, "rejected")
          /\ UNCHANGED messages
  /\ UNCHANGED << device, chats, session, ret, overwritten, hook, identity, lists >>

\* The two serverTimestamp() of the update resolve to the time of its commit.
TestChatUpdate(doc, d, now) ==
  [doc EXCEPT !.lastMessage = << [ text |-> d.text, createdAt |-> now,
                                   senderId |-> d.senderId ] >>,
              !.updatedAt = now]

\* updateDoc(chatRef, { lastMessage: { text, createdAt: serverTimestamp(),
\* senderId }, updatedAt: serverTimestamp() }) is committed at server time now,
\* not earlier than the commit of the message, or rejected.
SendTestMessageUpdate(p, now, ok) ==
  /\ pc[p] = "stUpdate"
  /\ now >= draft[p].createdAt
  /\ IF ok /\ ChatsAllowWrite(currentUser[p], target[p])
     THEN /\ chats' = [chats EXCEPT ![target[p]] = TestChatUpdate(@, draft[p], now)]
          /\ Finish(p, "smDone")
     ELSE /\ Finish(p, "rejected")
          /\ UNCHANGED chats
  /\ UNCHANGED << device, messages, session, ret, overwritten, hook, identity, lists >>

\* --------------------------------------- createOrUpdateUserDocument

\* getDeviceId(): the id stored under device_id, else the composite hardware
\* id the device reports now. AsyncStorage is taken to answer.
DeviceId(p) ==
  IF asyncStorage[p].device_id # NoDevice THEN asyncStorage[p].device_id
  ELSE hardware[p]

\* getDeviceId() leaves under device_id the id it returns: the stored one
\* untouched, a generated one by AsyncStorage.setItem('device_id', deviceId).
GetDeviceId(p) ==
  asyncStorage' = [asyncStorage EXCEPT ![p].device_id = DeviceId(p)]

\* setDoc(userRef, data, { merge: true }): fields written replace the stored
\* ones, fields not written stay.
Merge(doc, data) ==
  [ exists      |-> TRUE,
    displayName |-> IF data.displayName # "" THEN data.displayName ELSE doc.displayName,
    devices     |-> IF data.hasDevices THEN data.devices ELSE doc.devices ]

\* What device p reads of users/uid: the stored document with the device's own
\* writes that are issued and not yet applied laid over it.
Pending(p, i, uid) == i <= Len(queue[p]) /\ ups[p][queue[p][i]].uid = uid

View(p, uid) ==
  LET first == IF Pending(p, 1, uid)
               THEN Merge(users[uid], ups[p][queue[p][1]].data) ELSE users[uid]
  IN  IF Pending(p, 2, uid) THEN Merge(first, ups[p][queue[p][2]].data) ELSE first

\* match /users/{userId}: allow read; allow write
UsersAllowRead(uid) == uid # NoUser

UsersAllowWrite(uid, userId) == uid # NoUser /\ uid = userId

\* createOrUpdateUserDocument(user, additionalData) up to its getDoc.
UpsertStart(p, k, uid, extra, name) ==
  ups' = [ups EXCEPT ![p][k] =
            [ pc |-> "read", uid |-> uid, extra |-> extra, name |-> name,
              data |-> NoWrite ]]

\* The data object: displayName from the auth user, else the stored profile,
\* else the placeholder, overridden by additionalData; devices only for a new
\* document or when additionalData carries devices.
UpsertData(p, t, userData) ==
  LET deviceId == DeviceId(p)
      displayName == IF localName[p] # "" THEN localName[p]
                     ELSE IF userData.displayName # "" THEN userData.displayName
                     ELSE Placeholder(t.uid)
      devices == IF userData.devices # <<>>
                 THEN IF Includes(userData.devices, deviceId)
                      THEN userData.devices
                      ELSE Append(userData.devices, deviceId)
                 ELSE <<deviceId>>
      withDevices == ~userData.exists \/ t.extra = "devices"
  IN  [ displayName |-> IF t.extra = "name" THEN t.name ELSE displayName,
        hasDevices  |-> withDevices,
        devices     |-> IF withDevices THEN devices ELSE <<>> ]

\* getDoc(userRef) answers with the document, or is refused. With the document
\* the device reads its id (getDeviceId, local storage), builds data from the
\* snapshot and issues setDoc(userRef, data, { merge: true }). A request that
\* fails for another reason is the failed outcome of UpsertWrite.
UpsertRead(p, k) ==
  /\ ups[p][k].pc = "read"
  /\ IF UsersAllowRead(currentUser[p])
     THEN /\ ups' = [ups EXCEPT ![p][k].pc = "write",
                                ![p][k].data = UpsertData(p, ups[p][k], View(p, ups[p][k].uid))]
          /\ queue' = [queue EXCEPT ![p] = Append(@, k)]
          /\ GetDeviceId(p)
     ELSE /\ ups' = [ups EXCEPT ![p][k].pc = "failed"]
          /\ UNCHANGED << queue, asyncStorage >>
  /\ UNCHANGED << hardware, store, session, locals, hook, lists, users, account, localName, loading,
                  ctxUser, op, calls >>

\* The backend applies the device's oldest pending write, or rejects it.
UpsertWrite(p, k, ok) ==
  /\ ups[p][k].pc = "write"
  /\ queue[p] # <<>> /\ Head(queue[p]) = k
  /\ queue' = [queue EXCEPT ![p] = Tail(@)]
  /\ IF ok /\ UsersAllowWrite(currentUser[p], ups[p][k].uid)
     THEN /\ users' = [users EXCEPT ![ups[p][k].uid] = Merge(@, ups[p][k].data)]
          /\ ups' = [ups EXCEPT ![p][k].pc = "ack", ![p][k].data = NoWrite]
     ELSE /\ ups' = [ups EXCEPT ![p][k].pc = "failed", ![p][k].data = NoWrite]
          /\ UNCHANGED users
  /\ UNCHANGED << device, store, session, locals, hook, lists, account, localName, loading,
                  ctxUser, op, calls >>

\* The acknowledgement of an applied write reaches the device: await setDoc
\* resolves.
UpsertAck(p, k) ==
  /\ ups[p][k].pc = "ack"
  /\ ups' = [ups EXCEPT ![p][k].pc = "done"]
  /\ UNCHANGED << device, store, session, locals, hook, lists, users, account, localName, loading,
                  ctxUser, op, queue, calls >>

\* A listener whose failed profile write keeps it from setUser and setLoading.
ListenerSettleOnSuccess(p) ==
  /\ ups[p]["listener"].pc \in {"done", "failed"}
  /\ ctxUser' = [ctxUser EXCEPT ![p] =
       IF ups[p]["listener"].pc = "done" THEN ups[p]["listener"].uid ELSE @]
  /\ loading' = [loading EXCEPT ![p] =
       IF ups[p]["listener"].pc = "done" THEN FALSE ELSE @]
  /\ ups' = [ups EXCEPT ![p]["listener"] = UpsertOff]
  /\ UNCHANGED << device, store, session, locals, hook, lists, users, account, localName, op, queue,
                  calls >>

\* The write's acknowledgement (or the error) reaches the listener's await:
\* setUser(authUser), setLoading(false).
ListenerSettle(p) ==
  /\ ups[p]["listener"].pc \in {"done", "failed"}
  /\ ctxUser' = [ctxUser EXCEPT ![p] = ups[p]["listener"].uid]
  /\ loading' = [loading EXCEPT ![p] = FALSE]
  /\ ups' = [ups EXCEPT ![p]["listener"] = UpsertOff]
  /\ UNCHANGED << device, store, session, locals, hook, lists, users, account, localName, op, queue,
                  calls >>

\* ------------------------------------------------------- AuthProvider

\* findUserByDeviceId(deviceId): the first profile whose devices hold it.
UsersWithDevice(deviceId) ==
  { u \in Uids : users[u].exists /\ Includes(users[u].devices, deviceId) }

FindUserByDeviceId(deviceId) ==
  IF UsersWithDevice(deviceId) = {} THEN NoUser
  ELSE CHOOSE u \in UsersWithDevice(deviceId) : \A v \in UsersWithDevice(deviceId) : u <= v

Idle(p) == op[p].kind = "none"

ListenerIdle(p) == ups[p]["listener"].pc = "off"

\* A call of the provider ends: it resolves or it rejects.
OpEnd(p, outcome) == op' = [op EXCEPT ![p].pc = outcome]

\* The auth backend signs device p in as u: auth.currentUser changes, the
\* auth-state listener starts its createOrUpdateUserDocument(authUser), and the
\* call goes on to its own createOrUpdateUserDocument(user, { devices }).
SignedIn(p, u) ==
  /\ currentUser' = [currentUser EXCEPT ![p] = u]
  /\ asyncStorage' = [asyncStorage EXCEPT ![p].user_auth_state = u]
  /\ localName' = [localName EXCEPT ![p] = authName[u]]
  /\ ups' = [ups EXCEPT
       ![p]["listener"] = [ pc |-> "read", uid |-> u, extra |-> "none", name |-> "",
                            data |-> NoWrite ],
       ![p]["call"]     = [ pc |-> "read", uid |-> u, extra |-> "devices", name |-> "",
                            data |-> NoWrite ]]
  /\ op' = [op EXCEPT ![p].pc = "upsert", ![p].uid = u, ![p].tries = @ + 1]

\* A catch block that logs and rethrows without setLoading(false).
AuthFailedLoading(p) ==
  /\ op' = [op EXCEPT ![p].pc = "rejected", ![p].tries = @ + 1]
  /\ UNCHANGED << asyncStorage, loading, currentUser, localName, ups, account >>

\* The auth backend refuses: the call's catch block runs setLoading(false) and
\* rethrows.
AuthFailed(p) ==
  /\ op' = [op EXCEPT ![p].pc = "rejected", ![p].tries = @ + 1]
  /\ loading' = [loading EXCEPT ![p] = FALSE]
  /\ UNCHANGED << asyncStorage, currentUser, localName, ups, account >>

\* signIn() up to its first request: with a session it goes to the profile
\* write, without one it looks the device up and asks for a new anonymous user.
SignIn(p) ==
  /\ Idle(p)
  /\ calls < MaxCalls
  /\ calls' = calls + 1
  /\ loading' = [loading EXCEPT ![p] = TRUE]
  /\ GetDeviceId(p)
  /\ IF currentUser[p] # NoUser
     THEN /\ op' = [op EXCEPT ![p] = [OpNone EXCEPT !.kind = "signIn", !.pc = "upsert",
                                                   !.uid = currentUser[p],
                                                   !.deviceId = DeviceId(p)]]
          /\ UpsertStart(p, "call", currentUser[p], "devices", "")
     ELSE /\ op' = [op EXCEPT ![p] = [OpNone EXCEPT !.kind = "signIn", !.pc = "auth",
                                         !.found = FindUserByDeviceId(DeviceId(p)),
                                         !.deviceId = DeviceId(p)]]
          /\ UNCHANGED ups
  /\ UNCHANGED << hardware, store, session, locals, hook, lists, users, account, localName, ctxUser, queue >>

\* An anonymous sign-in that restores the identity findUserByDeviceId found.
SignInAnonymouslyRestoring(p, u, ok) ==
  /\ op[p].kind = "signIn" /\ op[p].pc = "auth"
  /\ IF ok
     THEN /\ u \in Uids
          /\ IF op[p].found # NoUser THEN u = op[p].found ELSE account[u] = "none"
          /\ ListenerIdle(p)
          /\ account' = [account EXCEPT ![u] = "anon"]
          /\ SignedIn(p, u)
          /\ UNCHANGED loading
     ELSE /\ u = NoUser
          /\ AuthFailed(p)
  /\ UNCHANGED << hardware, store, authName, locals, hook, lists, users, ctxUser, queue, calls >>

\* signInAnonymously(auth) answers: a user never seen before, or an error.
SignInAnonymously(p, u, ok) ==
  /\ op[p].kind = "signIn" /\ op[p].pc = "auth"
  /\ IF ok
     THEN /\ u \in Uids
          /\ account[u] = "none"
          /\ ListenerIdle(p)
          /\ account' = [account EXCEPT ![u] = "anon"]
          /\ SignedIn(p, u)
          /\ UNCHANGED loading
     ELSE /\ u = NoUser
          /\ AuthFailed(p)
  /\ UNCHANGED << hardware, store, authName, locals, hook, lists, users, ctxUser, queue, calls >>

\* signInWithEmail(email, password) up to its request.
SignInWithEmail(p) ==
  /\ Idle(p)
  /\ calls < MaxCalls
  /\ calls' = calls + 1
  /\ loading' = [loading EXCEPT ![p] = TRUE]
  /\ op' = [op EXCEPT ![p] = [OpNone EXCEPT !.kind = "email", !.pc = "auth"]]
  /\ UNCHANGED << device, store, session, locals, hook, lists, users, account, localName, ctxUser,
                  ups, queue >>

\* signInWithEmailAndPassword answers: the account of these credentials, or an error.
SignInWithEmailAndPassword(p, u, ok) ==
  /\ op[p].kind = "email" /\ op[p].pc = "auth"
  /\ IF ok
     THEN /\ u \in Uids
          /\ account[u] \in {"none", "email"}
          /\ u # currentUser[p]
          /\ ListenerIdle(p)
          /\ account' = [account EXCEPT ![u] = "email"]
          /\ SignedIn(p, u)
          /\ UNCHANGED loading
     ELSE /\ u = NoUser
          /\ AuthFailed(p)
  /\ UNCHANGED << hardware, store, authName, locals, hook, lists, users, ctxUser, queue, calls >>

\* updateDisplayName(name) / updateProfilePhoto(uri) up to updateProfile.
UpdateProfile(p, kind, name) ==
  /\ Idle(p)
  /\ calls < MaxCalls
  /\ calls' = calls + 1
  /\ IF currentUser[p] = NoUser
     THEN /\ op' = [op EXCEPT ![p] = [OpNone EXCEPT !.kind = kind, !.pc = "rejected"]]
          /\ UNCHANGED loading
     ELSE /\ op' = [op EXCEPT ![p] = [OpNone EXCEPT !.kind = kind, !.pc = "profile",
                                         !.uid = currentUser[p], !.name = name]]
          /\ loading' = [loading EXCEPT ![p] = TRUE]
  /\ UNCHANGED << device, store, session, locals, hook, lists, users, account, localName, ctxUser,
                  ups, queue >>

UpdateDisplayName(p, name) == UpdateProfile(p, "name", name)

UpdateProfilePhoto(p) == UpdateProfile(p, "photo", "")

\* updateProfile(currentUser, ...) answers; then createOrUpdateUserDocument
\* (currentUser, { displayName: name }) or (currentUser, { photoURL }).
UpdateProfileDone(p, ok) ==
  /\ op[p].kind \in {"name", "photo"} /\ op[p].pc = "profile"
  /\ IF ok
     THEN /\ op' = [op EXCEPT ![p].pc = "upsert"]
          /\ IF op[p].kind = "name"
             THEN /\ authName' = [authName EXCEPT ![op[p].uid] = op[p].name]
                  /\ localName' = [localName EXCEPT ![p] = op[p].name]
                  /\ UpsertStart(p, "call", op[p].uid, "name", op[p].name)
             ELSE /\ UpsertStart(p, "call", op[p].uid, "none", "")
                  /\ UNCHANGED << authName, localName >>
          /\ UNCHANGED loading
     ELSE /\ OpEnd(p, "rejected")
          /\ loading' = [loading EXCEPT ![p] = FALSE]
          /\ UNCHANGED << authName, localName, ups >>
  /\ UNCHANGED << device, store, currentUser, locals, hook, lists, users, account, ctxUser, queue,
                  calls >>

\* The call's createOrUpdateUserDocument resolved or threw. signIn returns the
\* user and leaves loading as it is; the other calls reset it in finally, and
\* the two profile updates refresh the context user first.
CallSettle(p) ==
  /\ op[p].pc = "upsert"
  /\ ups[p]["call"].pc \in {"done", "failed"}
  /\ ups' = [ups EXCEPT ![p]["call"] = UpsertOff]
  /\ OpEnd(p, IF ups[p]["call"].pc = "done" THEN "resolved" ELSE "rejected")
  /\ loading' = [loading EXCEPT ![p] =
       IF op[p].kind = "signIn" /\ ups[p]["call"].pc = "done" THEN @ ELSE FALSE]
  /\ ctxUser' = [ctxUser EXCEPT ![p] =
       IF op[p].kind \in {"name", "photo"} /\ ups[p]["call"].pc = "done"
       THEN op[p].uid ELSE @]
  /\ UNCHANGED << device, store, session, locals, hook, lists, users, account, localName, queue,
                  calls >>

\* signOut() up to its first request: the lastActive write when the context
\* has a user, else firebaseSignOut.
SignOut(p) ==
  /\ Idle(p)
  /\ calls < MaxCalls
  /\ calls' = calls + 1
  /\ loading' = [loading EXCEPT ![p] = TRUE]
  /\ op' = [op EXCEPT ![p] = [OpNone EXCEPT !.kind = "signOut",
              !.pc = IF ctxUser[p] # NoUser THEN "touch" ELSE "auth",
              !.uid = ctxUser[p]]]
  /\ UNCHANGED << device, store, session, locals, hook, lists, users, account, localName, ctxUser,
                  ups, queue >>

\* setDoc(userRef, { lastActive }, { merge: true }) is applied or rejected.
SignOutTouch(p, ok) ==
  /\ op[p].kind = "signOut" /\ op[p].pc = "touch"
  /\ queue[p] = <<>>
  /\ IF ok /\ UsersAllowWrite(currentUser[p], op[p].uid)
     THEN /\ users' = [users EXCEPT ![op[p].uid] = Merge(@, NoWrite)]
          /\ op' = [op EXCEPT ![p].pc = "auth"]
          /\ UNCHANGED loading
     ELSE /\ OpEnd(p, "rejected")
          /\ loading' = [loading EXCEPT ![p] = FALSE]
          /\ UNCHANGED users
  /\ UNCHANGED << device, store, session, locals, hook, lists, account, localName, ctxUser, ups, queue,
                  calls >>

\* A signOut that empties the local storage (AsyncStorage.clear()) where
\* signOut removes one key.
FirebaseSignOutClearing(p, ok) ==
  /\ op[p].kind = "signOut" /\ op[p].pc = "auth"
  /\ loading' = [loading EXCEPT ![p] = FALSE]
  /\ asyncStorage' = [asyncStorage EXCEPT ![p] =
       IF ok THEN [ device_id |-> NoDevice, user_auth_state |-> NoUser ] ELSE @]
  /\ IF ok /\ currentUser[p] # NoUser
     THEN /\ ListenerIdle(p)
          /\ currentUser' = [currentUser EXCEPT ![p] = NoUser]
          /\ localName' = [localName EXCEPT ![p] = ""]
          /\ ctxUser' = [ctxUser EXCEPT ![p] = NoUser]
          /\ OpEnd(p, "resolved")
     ELSE /\ OpEnd(p, IF ok THEN "resolved" ELSE "rejected")
          /\ UNCHANGED << currentUser, localName, ctxUser >>
  /\ UNCHANGED << hardware, store, authName, locals, hook, lists, users, account, ups, queue, calls >>

\* firebaseSignOut(auth) answers; on success the auth-state listener runs with
\* no user: setUser(null), setLoading(false), and signOut goes on to
\* AsyncStorage.removeItem('user_auth_state').
FirebaseSignOut(p, ok) ==
  /\ op[p].kind = "signOut" /\ op[p].pc = "auth"
  /\ loading' = [loading EXCEPT ![p] = FALSE]
  /\ asyncStorage' = [asyncStorage EXCEPT ![p].user_auth_state = IF ok THEN NoUser ELSE @]
  /\ IF ok /\ currentUser[p] # NoUser
     THEN /\ ListenerIdle(p)
          /\ currentUser' = [currentUser EXCEPT ![p] = NoUser]
          /\ localName' = [localName EXCEPT ![p] = ""]
          /\ ctxUser' = [ctxUser EXCEPT ![p] = NoUser]
          /\ OpEnd(p, "resolved")
     ELSE /\ OpEnd(p, IF ok THEN "resolved" ELSE "rejected")
          /\ UNCHANGED << currentUser, localName, ctxUser >>
  /\ UNCHANGED << hardware, store, authName, locals, hook, lists, users, account, ups, queue, calls >>

\* The caller of a provider call has seen its outcome.
OpContinue(p) ==
  /\ op[p].pc \in {"resolved", "rejected"}
  /\ op' = [op EXCEPT ![p] = OpNone]
  /\ UNCHANGED << device, store, session, locals, hook, lists, users, account, localName, loading,
                  ctxUser, ups, queue, calls >>

\* Device.deviceName, Device.modelName and Device.osBuildId change (the device
\* is renamed, its OS updated) while the app is closed with nobody signed in;
\* the app starts again and its auth-state listener runs with no user.
OsUpdate(p) ==
  /\ Idle(p) /\ ListenerIdle(p) /\ queue[p] = <<>>
  /\ pc[p] = "idle"
  /\ currentUser[p] = NoUser
  /\ hardware[p] = p
  /\ hardware' = [hardware EXCEPT ![p] = p + NumClients]
  /\ loading' = [loading EXCEPT ![p] = FALSE]
  /\ ctxUser' = [ctxUser EXCEPT ![p] = NoUser]
  /\ UNCHANGED << asyncStorage, store, session, locals, hook, lists, users, account,
                  localName, op, ups, queue, calls >>

\* ------------------------------------------------------------ useUsers()

\* getUserById(userId): the profile with the display-name fallback, or null.
NoUserRecord == [ uid |-> NoUser, displayName |-> "" ]

\* The profile as stored, without the fallback.
ToUserStored(u) == [ uid |-> u, displayName |-> users[u].displayName ]

ToUser(u) ==
  [ uid         |-> u,
    displayName |-> IF users[u].displayName # "" THEN users[u].displayName
                    ELSE Placeholder(u) ]

GetUserById(userId) == IF users[userId].exists THEN ToUser(userId) ELSE NoUserRecord

\* query(usersRef, orderBy('displayName')): the documents that have the field,
\* by display name and then by id. A name somebody typed sorts before the
\* placeholders ('A' < 'U'), the placeholders sort by their id.
NameKey(n) == IF n \in Names THEN 0 ELSE CHOOSE u \in Uids : Placeholder(u) = n

NameBefore(a, b) ==
  \/ NameKey(users[a].displayName) < NameKey(users[b].displayName)
  \/ NameKey(users[a].displayName) = NameKey(users[b].displayName) /\ a < b

OrderByDisplayName ==
  LET S == { u \in Uids : users[u].exists /\ users[u].displayName # "" }
  IN  [ i \in 1..Cardinality(S) |->
          CHOOSE a \in S : Cardinality({ b \in S : NameBefore(b, a) }) = i - 1 ]

\* The caller's own document is kept in the list.
KeepAll(id, me) == TRUE

\* if (doc.id !== currentUser?.uid)
NotCurrentUser(id, me) == id # me

\* The usersList of one snapshot, built by the listener whose closure holds me.
SnapshotUsers(me) ==
  LET order == OrderByDisplayName
      kept  == SelectSeq(order, LAMBDA id : NotCurrentUser(id, me))
  IN  [ i \in DOMAIN kept |-> ToUser(kept[i]) ]

ContextValue == << ctxUser[Viewer], loading[Viewer] >>

\* The effect of useUsers run with currentUser = cur (after the cleanup of the
\* previous run): without a user the list is emptied, with one a listener is
\* registered.
UsersEffect(h, cur) ==
  IF cur = NoUser
  THEN [h EXCEPT !.status = "idle", !.me = NoUser, !.loading = FALSE, !.users = <<>>]
  ELSE [h EXCEPT !.status = "live", !.me = cur, !.loading = TRUE]

\* A render of the hook: getCurrentUser() is read and the effect runs again
\* when its dependency [currentUser] changed.
UsersRender(h) ==
  IF currentUser[Viewer] # h.me THEN UsersEffect(h, currentUser[Viewer]) ELSE h

MountUsers ==
  /\ uhook.status = "off"
  /\ uhook' = [UsersEffect(UsersOff, currentUser[Viewer]) EXCEPT !.seen = ContextValue]
  /\ UNCHANGED << device, store, session, locals, hook, identity, chook, nhook >>

\* The contacts screen reads the auth context: it renders again when the
\* context value changed.
RenderUsers ==
  /\ uhook.status # "off"
  /\ uhook.seen # ContextValue
  /\ uhook' = [UsersRender(uhook) EXCEPT !.seen = ContextValue]
  /\ UNCHANGED << device, store, session, locals, hook, identity, chook, nhook >>

\* The snapshot callback (the listener is refused when the device has no
\* session: then the error callback runs), and the render the state change
\* causes.
DeliverUsers ==
  /\ uhook.status = "live"
  /\ \/ uhook.loading
     \/ uhook.users # SnapshotUsers(uhook.me)
     \/ ~UsersAllowRead(currentUser[Viewer])
  /\ IF UsersAllowRead(currentUser[Viewer])
     THEN uhook' = UsersRender([uhook EXCEPT !.users = SnapshotUsers(uhook.me),
                                             !.loading = FALSE, !.error = FALSE])
     ELSE uhook' = UsersRender([uhook EXCEPT !.status = "ended", !.error = TRUE,
                                             !.loading = FALSE])
  /\ UNCHANGED << device, store, session, locals, hook, identity, chook, nhook >>

\* The error callback after a stream failure: setError(err), setLoading(false).
UsersStreamError ==
  /\ uhook.status = "live"
  /\ uhook' = UsersRender([uhook EXCEPT !.status = "ended", !.error = TRUE,
                                        !.loading = FALSE])
  /\ UNCHANGED << device, store, session, locals, hook, identity, chook, nhook >>

\* The screen goes away: the effect's cleanup unsubscribes.
UnmountUsers ==
  /\ uhook.status # "off"
  /\ uhook' = UsersOff
  /\ UNCHANGED << device, store, session, locals, hook, identity, chook, nhook >>

\* ------------------------------------------------------------ useChats()

ChatsOf(uid) == { id \in DOMAIN chats : Includes(chats[id].participants, uid) }

UpdatedLater(a, b) ==
  \/ chats[a].updatedAt > chats[b].updatedAt
  \/ chats[a].updatedAt = chats[b].updatedAt /\ a > b

\* where('participants', 'array-contains', uid), orderBy('updatedAt', 'desc'):
\* the chat ids in the order of the snapshot.
SnapshotChats(uid) ==
  LET S == ChatsOf(uid)
  IN  [ i \in 1..Cardinality(S) |->
          CHOOSE a \in S : Cardinality({ b \in S : UpdatedLater(b, a) }) = i - 1 ]

\* The effect of useChats, run once when the hook mounts (dependencies []).
MountChats ==
  /\ chook.status = "off"
  /\ chook' = IF currentUser[Viewer] = NoUser
              THEN [ChatsOff EXCEPT !.status = "idle", !.loading = FALSE]
              ELSE [ChatsOff EXCEPT !.status = "live", !.me = currentUser[Viewer]]
  /\ UNCHANGED << device, store, session, locals, hook, identity, uhook, nhook >>

\* A query on the chats of me is granted to me only.
ChatsAllowList(uid, me) == uid # NoUser /\ uid = me

DeliverChats ==
  /\ chook.status = "live"
  /\ \/ chook.loading
     \/ chook.chats # SnapshotChats(chook.me)
     \/ ~ChatsAllowList(currentUser[Viewer], chook.me)
  /\ IF ChatsAllowList(currentUser[Viewer], chook.me)
     THEN chook' = [chook EXCEPT !.chats = SnapshotChats(chook.me), !.loading = FALSE]
     ELSE chook' = [chook EXCEPT !.status = "ended", !.error = TRUE, !.loading = FALSE]
  /\ UNCHANGED << device, store, session, locals, hook, identity, uhook, nhook >>

\* An error callback that also empties the list.
ChatsStreamErrorClearing ==
  /\ chook.status = "live"
  /\ chook' = [chook EXCEPT !.status = "ended", !.error = TRUE, !.loading = FALSE,
                            !.chats = <<>>]
  /\ UNCHANGED << device, store, session, locals, hook, identity, uhook, nhook >>

\* The error callback after a stream failure: setError(err), setLoading(false).
ChatsStreamError ==
  /\ chook.status = "live"
  /\ chook' = [chook EXCEPT !.status = "ended", !.error = TRUE, !.loading = FALSE]
  /\ UNCHANGED << device, store, session, locals, hook, identity, uhook, nhook >>

UnmountChats ==
  /\ chook.status # "off"
  /\ chook' = ChatsOff
  /\ UNCHANGED << device, store, session, locals, hook, identity, uhook, nhook >>

\* -------------------------------------------------------- NewChatScreen

\* useEffect(() => { fetchUsers(); }, [user]): fetchUsers is async, so the
\* unsubscribe it returns goes to its promise and the effect returns no
\* cleanup. Each run with a user registers one more listener.
NewChatEffect(h, user) ==
  IF user = NoUser
  THEN [h EXCEPT !.user = NoUser, !.loading = FALSE]
  ELSE [h EXCEPT !.user = user, !.loading = TRUE, !.subs = Append(@, user)]

MountNewChat ==
  /\ ~nhook.mounted
  /\ Len(nhook.subs) < MaxListeners
  /\ nhook' = NewChatEffect([nhook EXCEPT !.mounted = TRUE, !.loading = TRUE],
                            ctxUser[Viewer])
  /\ UNCHANGED << device, store, session, locals, hook, identity, uhook, chook >>

\* The context's user changed: the screen renders and the effect runs again.
RenderNewChat ==
  /\ nhook.mounted
  /\ nhook.user # ctxUser[Viewer]
  /\ nhook' = NewChatEffect(nhook, ctxUser[Viewer])
  /\ UNCHANGED << device, store, session, locals, hook, identity, uhook, chook >>

\* The uid field of a stored profile: createOrUpdateUserDocument writes
\* displayName, email, photoURL, isAnonymous, lastActive and devices, and no
\* uid, so the field is absent (NoUser stands for undefined).
UidField(u) == NoUser

\* if (userData.uid !== user.uid)
UidFieldIsNot(u, me) == UidField(u) # me

\* The usersList of one snapshot of the new-chat screen, built by a listener
\* whose closure holds the user me: every profile has lastActive, so the query
\* returns them all. doc is the document an entry was made from; the order
\* (lastActive, descending) is not kept.
SnapshotNewChat(me) ==
  { [ doc |-> u, uid |-> UidField(u),
      displayName |-> IF users[u].displayName # "" THEN users[u].displayName
                      ELSE Placeholder(UidField(u)) ] :
      u \in { v \in Uids : users[v].exists /\ UidFieldIsNot(v, me) } }

\* The snapshot callback of the i-th registered listener: setUsers(usersList),
\* setLoading(false), also when the screen is gone or the effect has run again.
\* late records a snapshot delivered to a listener of an effect run that is over.
DeliverNewChat(i) ==
  /\ i \in DOMAIN nhook.subs
  /\ UsersAllowRead(currentUser[Viewer])
  /\ \/ nhook.loading \/ ~nhook.mounted \/ i < Len(nhook.subs)
     \/ nhook.users # SnapshotNewChat(nhook.subs[i])
  /\ nhook' = [nhook EXCEPT !.loading = FALSE,
                            !.users = IF nhook.mounted
                                      THEN SnapshotNewChat(nhook.subs[i]) ELSE @,
                            !.late = @ \/ ~nhook.mounted \/ i < Len(nhook.subs)
                                       \/ nhook.subs[i] # nhook.user]
  /\ UNCHANGED << device, store, session, locals, hook, identity, uhook, chook >>

\* The error callback: the stream of the i-th listener ends.
NewChatStreamError(i) ==
  /\ i \in DOMAIN nhook.subs
  /\ nhook' = [nhook EXCEPT !.loading = FALSE,
                 !.subs = SubSeq(@, 1, i - 1) \o SubSeq(@, i + 1, Len(@))]
  /\ UNCHANGED << device, store, session, locals, hook, identity, uhook, chook >>

\* The screen goes away; no cleanup was registered.
UnmountNewChat ==
  /\ nhook.mounted
  /\ nhook' = [nhook EXCEPT !.mounted = FALSE, !.user = NoUser, !.loading = TRUE,
                            !.users = {}]
  /\ UNCHANGED << device, store, session, locals, hook, identity, uhook, chook >>

\* ----------------------------------------------------- specifications

\* No other find-or-create call is running.
NoneInFindOrCreate == \A q \in Clients : ~InFindOrCreate(q)

\* A resolved or rejected promise runs its caller's continuation before the
\* client handles any other event, and the continuation touches nothing that
\* is shared: no other step is taken in between.
Outcomes == {"returned", "rejected", "logged", "denied", "smDone"}
Settled == \A q \in Clients : pc[q] \notin Outcomes

\* The chat registry as the screens use it, calls of several clients overlapping.
NextRegistry ==
  \/ \E p \in Clients : Continue(p)
  \/ \E p \in Clients, u \in Uids \cup {NoUser} : Settled /\ AuthStateChanged(p, u)
  \/ \E p \in Clients, u \in Uids : Settled /\ NewChat(p, u)
  \/ \E p \in Clients, u \in Uids : Settled /\ StartChat(p, u)
  \/ \E p \in Clients, failed \in BOOLEAN : Settled /\ StartChatLookup(p, failed)
  \/ \E p \in Clients, failed \in BOOLEAN : Settled /\ CreateChatLookup(p, failed)
  \/ \E p \in Clients, id \in ChatIds, ok \in BOOLEAN :
        Settled /\ CreateChatInsert(p, id, MaxTime, ok)
  \/ \E p \in Clients, ok \in BOOLEAN : Settled /\ CreateChatWelcome(p, ok)

Spec == InitChat /\ [][NextRegistry]_vars

\* The chat registry called with any participant list, calls never overlapping.
NextSequential ==
  \/ \E p \in Clients : Continue(p)
  \/ \E p \in Clients, u \in Uids \cup {NoUser} : Settled /\ AuthStateChanged(p, u)
  \/ \E p \in Clients, ids \in IdLists :
        Settled /\ NoneInFindOrCreate /\ CreateChat(p, ids)
  \/ \E p \in Clients, u \in Uids : Settled /\ NoneInFindOrCreate /\ StartChat(p, u)
  \/ \E p \in Clients, failed \in BOOLEAN : Settled /\ StartChatLookup(p, failed)
  \/ \E p \in Clients, failed \in BOOLEAN : Settled /\ CreateChatLookup(p, failed)
  \/ \E p \in Clients, id \in ChatIds, ok \in BOOLEAN :
        Settled /\ CreateChatInsert(p, id, MaxTime, ok)
  \/ \E p \in Clients, ok \in BOOLEAN : Settled /\ CreateChatWelcome(p, ok)

SpecSequential == InitChat /\ [][NextSequential]_vars

\* The message channel: each client signing in and out as its own user, chats
\* created from the new-chat screen, sends of the clients overlapping, profile
\* updates in between; one clock reading for all.
NextChannel ==
  \/ \E p \in Clients : Continue(p)
  \/ \E p \in Clients, u \in Uids \cup {NoUser} :
        Settled /\ u \in {HomeUser(p), NoUser} /\ AuthStateChanged(p, u)
  \/ \E p \in Clients, n \in Names : Settled /\ UpdateProfileName(p, n)
  \/ \E p \in Clients, u \in Uids : Settled /\ NewChat(p, u)
  \/ \E p \in Clients, failed \in BOOLEAN : Settled /\ CreateChatLookup(p, failed)
  \/ \E p \in Clients, id \in RoomIds, ok \in BOOLEAN :
        Settled /\ CreateChatInsert(p, id, MaxTime, ok)
  \/ \E p \in Clients, ok \in BOOLEAN : Settled /\ CreateChatWelcome(p, ok)
  \/ \E p \in Clients, c \in ChatIds, text \in Texts :
        Settled /\ SendMessage(p, c, text, MaxTime)
  \/ \E p \in Clients, ok \in BOOLEAN : Settled /\ SendMessageAdd(p, ok)
  \/ \E p \in Clients, ok \in BOOLEAN : Settled /\ SendMessageUpdate(p, ok)
  \/ \E p \in Clients : Settled /\ SendMessageResolve(p)
  \/ \E p \in Clients, mid \in MsgIds, remove \in BOOLEAN :
        Settled /\ ModifyMessage(p, mid, remove)

SpecChannel == InitChat /\ [][NextChannel]_vars

\* The chat screen: the store after user 1's createChat([1, 2]) has returned
\* chat 1, each client signed in as its own user, sends overlapping and one
\* mounted useMessages hook.
FeedChat ==
  [ participants     |-> <<1, 2>>,
    participantNames |-> [ u \in {1, 2} |-> Placeholder(u) ],
    createdAt        |-> 1,
    updatedAt        |-> 1,
    lastMessage      |-> NoLastMessage ]

InitFeed ==
  /\ chats = (1 :> FeedChat)
  /\ messages = (1 :> WelcomeMessage(1, 1))
  /\ currentUser = [ p \in Clients |-> HomeUser(p) ]
  /\ authName = [ u \in Uids |-> "" ]
  /\ pc = [ p \in Clients |-> "idle" ]
  /\ via = [ p \in Clients |-> "none" ]
  /\ participantIds = [ p \in Clients |-> <<>> ]
  /\ sortedIds = [ p \in Clients |-> <<>> ]
  /\ names = [ p \in Clients |-> << >> ]
  /\ target = [ p \in Clients |-> NoChat ]
  /\ draft = [ p \in Clients |-> NoDraft ]
  /\ sent = [ p \in Clients |-> 0 ]
  /\ ret = [ p \in Clients |-> NoChat ]
  /\ lookupErr = [ p \in Clients |-> FALSE ]
  /\ overwritten = [ p \in Clients |-> FALSE ]
  /\ hook = HookOff
  /\ InitIdentity
  /\ InitLists

NextFeed ==
  \/ \E p \in Clients : Continue(p)
  \/ \E p \in Clients, u \in Uids \cup {NoUser} : Settled /\ AuthStateChanged(p, u)
  \/ \E p \in Clients, c \in ChatIds, text \in Texts, now \in Times :
        Settled /\ SendMessage(p, c, text, now)
  \/ \E p \in Clients, ok \in BOOLEAN : Settled /\ SendMessageAdd(p, ok)
  \/ \E p \in Clients, ok \in BOOLEAN : Settled /\ SendMessageUpdate(p, ok)
  \/ \E p \in Clients : Settled /\ SendMessageResolve(p)
  \/ \E p \in Clients, c \in ChatIds : Settled /\ MountMessages(p, c)
  \/ DeliverMessages
  \/ Settled /\ MessagesStreamError
  \/ Settled /\ UnmountMessages

SpecFeed == InitFeed /\ [][NextFeed]_vars

\* The identity layer: AuthProvider calls of several devices, their profile
\* reads and writes interleaved.
OpSettled ==
  \A q \in Clients :
    /\ op[q].pc \notin {"resolved", "rejected"}
    /\ \A k \in Slots : ups[q][k].pc \notin {"done", "failed"}

\* A continuation whose await has been answered runs before anything else.
NextProfile ==
  \/ \E p \in Clients : OpContinue(p)
  \/ \E p \in Clients : CallSettle(p)
  \/ \E p \in Clients : ListenerSettle(p)
  \/ \E p \in Clients : OpSettled /\ SignIn(p)
  \/ \E p \in Clients, u \in Uids \cup {NoUser}, ok \in BOOLEAN :
       OpSettled /\ SignInAnonymously(p, u, ok)
  \/ \E p \in Clients : OpSettled /\ SignInWithEmail(p)
  \/ \E p \in Clients, u \in Uids \cup {NoUser}, ok \in BOOLEAN :
       OpSettled /\ SignInWithEmailAndPassword(p, u, ok)
  \/ \E p \in Clients, n \in Names : OpSettled /\ UpdateDisplayName(p, n)
  \/ \E p \in Clients : OpSettled /\ UpdateProfilePhoto(p)
  \/ \E p \in Clients, ok \in BOOLEAN : OpSettled /\ UpdateProfileDone(p, ok)
  \/ \E p \in Clients : OpSettled /\ SignOut(p)
  \/ \E p \in Clients, ok \in BOOLEAN : OpSettled /\ SignOutTouch(p, ok)
  \/ \E p \in Clients, ok \in BOOLEAN : OpSettled /\ FirebaseSignOut(p, ok)
  \/ \E p \in Clients, k \in Slots : OpSettled /\ UpsertRead(p, k)
  \/ \E p \in Clients, k \in Slots, ok \in BOOLEAN : OpSettled /\ UpsertWrite(p, k, ok)
  \/ \E p \in Clients, k \in Slots : OpSettled /\ UpsertAck(p, k)

SpecProfile == InitChat /\ [][NextProfile]_vars

\* The contacts screen and the new-chat screen of one device while its user
\* signs in, renames and signs out. The login screen is shown without a
\* session, so an email sign-in starts from no session. A render that is due
\* runs before anything else.
Rendered ==
  /\ uhook.status = "off" \/ uhook.seen = ContextValue
  /\ ~nhook.mounted \/ nhook.user = ctxUser[Viewer]

Calm == OpSettled /\ Rendered

NextDirectory ==
  \/ OpContinue(Viewer)
  \/ CallSettle(Viewer)
  \/ ListenerSettle(Viewer)
  \/ OpSettled /\ RenderUsers
  \/ OpSettled /\ RenderNewChat
  \/ Calm /\ SignIn(Viewer)
  \/ \E u \in Uids \cup {NoUser}, ok \in BOOLEAN : Calm /\ SignInAnonymously(Viewer, u, ok)
  \/ Calm /\ currentUser[Viewer] = NoUser /\ SignInWithEmail(Viewer)
  \/ \E u \in Uids \cup {NoUser}, ok \in BOOLEAN :
       Calm /\ SignInWithEmailAndPassword(Viewer, u, ok)
  \/ \E n \in Names : Calm /\ UpdateDisplayName(Viewer, n)
  \/ \E ok \in BOOLEAN : Calm /\ UpdateProfileDone(Viewer, ok)
  \/ Calm /\ SignOut(Viewer)
  \/ \E ok \in BOOLEAN : Calm /\ SignOutTouch(Viewer, ok)
  \/ \E ok \in BOOLEAN : Calm /\ FirebaseSignOut(Viewer, ok)
  \/ \E k \in Slots : Calm /\ UpsertRead(Viewer, k)
  \/ \E k \in Slots, ok \in BOOLEAN : Calm /\ UpsertWrite(Viewer, k, ok)
  \/ \E k \in Slots : Calm /\ UpsertAck(Viewer, k)
  \/ Calm /\ MountUsers
  \/ Calm /\ DeliverUsers
  \/ Calm /\ UsersStreamError
  \/ Calm /\ UnmountUsers
  \/ Calm /\ MountNewChat
  \/ \E i \in 1..(MaxListeners + MaxCalls) : Calm /\ DeliverNewChat(i)
  \/ \E i \in 1..(MaxListeners + MaxCalls) : Calm /\ NewChatStreamError(i)
  \/ Calm /\ UnmountNewChat

SpecDirectory == InitChat /\ [][NextDirectory]_vars

\* ------------------------------------------------- chat registry: claims

\* The arrays that hold the same ids as s, each as often, in any order.
Occurrences(s, x) == Cardinality({ i \in DOMAIN s : s[i] = x })

PermutationsOf(s) ==
  { t \in [DOMAIN s -> Range(s)] : \A x \in Range(s) : Occurrences(t, x) = Occurrences(s, x) }

\* C1. Calls never overlapping, no two chat documents have the same set of
\* participants: a find-or-create for an existing set adds no second document.
C1_OneChatPerParticipantSet ==
  \A a \in DOMAIN chats : \A b \in DOMAIN chats :
    Range(chats[a].participants) = Range(chats[b].participants) => a = b

\* C2. Calls of several clients overlapping, every lookup key has at most one
\* chat document.
C2_OneChatPerKey ==
  \A p \in Clients : Cardinality(MatchingChats(sortedIds[p])) <= 1

C5_ParticipantsDeduplicated ==
  \A id \in DOMAIN chats :
    \A i \in DOMAIN chats[id].participants : \A j \in DOMAIN chats[id].participants :
      chats[id].participants[i] = chats[id].participants[j] => i = j

\* C6. A find-or-create whose lookup query failed inserts no chat document.
C6_FailedLookupInsertsNothing ==
  [][ \A p \in Clients :
        lookupErr[p] /\ pc[p] = "ccInsert" => pc'[p] # "ccWelcome" ]_vars

\* -------------------------------------------------- message channel: claims

\* C7. Every stored message stays stored with the fields it was stored with.
C7_MessagesAppendOnly ==
  [][ \A mid \in DOMAIN messages :
        mid \in DOMAIN messages' /\ messages'[mid] = messages[mid] ]_vars

\* A request to update or delete a message has just been refused while a
\* welcome message and a sent message are stored.
C7_Witness ==
  /\ \E p \in Clients : pc[p] = "denied"
  /\ \E a \in DOMAIN messages : messages[a].senderId = SystemSender
  /\ \E b \in DOMAIN messages : messages[b].senderId \in Uids

\* The chat screen with both users staying signed in. The snapshot callback
\* and the continuation of a settled promise run once they can.
NextFeedLive ==
  \/ \E p \in Clients : Continue(p)
  \/ \E p \in Clients, c \in ChatIds, text \in Texts, now \in Times :
        Settled /\ SendMessage(p, c, text, now)
  \/ \E p \in Clients, ok \in BOOLEAN : Settled /\ SendMessageAdd(p, ok)
  \/ \E p \in Clients, ok \in BOOLEAN : Settled /\ SendMessageUpdate(p, ok)
  \/ \E p \in Clients : Settled /\ SendMessageResolve(p)
  \/ \E p \in Clients, c \in ChatIds : Settled /\ MountMessages(p, c)
  \/ DeliverMessages
  \/ Settled /\ MessagesStreamError
  \/ Settled /\ UnmountMessages

SpecFeedLive ==
  /\ InitFeed
  /\ [][NextFeedLive]_vars
  /\ WF_vars(DeliverMessages)
  /\ WF_vars(\E p \in Clients : Continue(p))

\* The ids of the messages the hook holds.
Delivered == { hook.messages[i].id : i \in DOMAIN hook.messages }

\* C8. The list the hook holds is newest first: a message with a later
\* createdAt stands before every message with an earlier one.
C8_NewestFirst ==
  \A i \in DOMAIN hook.messages : \A j \in DOMAIN hook.messages :
    hook.messages[i].createdAt > hook.messages[j].createdAt => i < j

\* The hook holds messages of both users, one of them added later than
\* another but carrying the earlier createdAt.
C8_Witness ==
  /\ hook.status = "live"
  /\ \A u \in Uids : \E i \in DOMAIN hook.messages : hook.messages[i].senderId = u
  /\ \E i \in DOMAIN hook.messages : \E j \in DOMAIN hook.messages :
       /\ hook.messages[i].id > hook.messages[j].id
       /\ hook.messages[i].createdAt < hook.messages[j].createdAt

\* Once sendMessage has resolved, a hook that is live on the chat comes to
\* hold the message sent, unless it is unmounted or fails first.
C4_SentIsDelivered ==
  \A p \in Clients : \A mid \in MsgIds : \A c \in RoomIds :
    (pc[p] = "smDone" /\ sent[p] = mid /\ target[p] = c
       /\ hook.status = "live" /\ hook.chatId = c)
      ~> (mid \in Delivered \/ hook.status # "live" \/ hook.chatId # c)

\* The chat's lastMessage and updatedAt are those of the message sent.
SummaryIs(c, text, now, sender) ==
  /\ c \in DOMAIN chats
  /\ chats[c].lastMessage = << [ text |-> text, createdAt |-> now, senderId |-> sender ] >>
  /\ chats[c].updatedAt = now

\* C4 as stated. Once sendMessage has resolved, a live hook comes to hold the
\* message, and the chat's lastMessage comes to be the message sent, with
\* updatedAt its createdAt.
C4_AsStated ==
  /\ C4_SentIsDelivered
  /\ \A p \in Clients : \A c \in RoomIds : \A now \in Times : \A u \in Uids :
       \A text \in Texts :
         (pc[p] = "smDone" /\ target[p] = c /\ draft[p].createdAt = now
            /\ draft[p].senderId = u /\ draft[p].text = text)
           ~> SummaryIs(c, text, now, u)

\* C4, amended. Once sendMessage has resolved, a live hook comes to hold the
\* message, and the chat's lastMessage is the message sent, with updatedAt its
\* createdAt, unless another update of the chat has landed since.
C4_Delivered_SummaryUnlessOverwritten ==
  /\ C4_SentIsDelivered
  /\ [](\A p \in Clients :
          pc[p] = "smDone" =>
            \/ overwritten[p]
            \/ SummaryIs(target[p], draft[p].text, draft[p].createdAt, draft[p].senderId))

\* A send has resolved while the hook, live on its chat, does not hold the
\* message yet, and another send's update has landed after this one's.
C4_Witness ==
  \E p \in Clients :
    /\ pc[p] = "smDone"
    /\ hook.status = "live" /\ hook.chatId = target[p]
    /\ sent[p] \notin Delivered
    /\ overwritten[p]

\* The chats tab on the Viewer's device: the tab mounts and unmounts useChats
\* while the device signs in and out under any identity, creates chats from
\* the new-chat screen. The SDK calls a registered snapshot
\* listener whenever its result has changed, and a settled promise runs its
\* continuation.
NextInbox ==
  \/ Continue(Viewer)
  \/ \E u \in Uids \cup {NoUser} : Settled /\ AuthStateChanged(Viewer, u)
  \/ \E u \in Uids : Settled /\ NewChat(Viewer, u)
  \/ \E failed \in BOOLEAN : Settled /\ CreateChatLookup(Viewer, failed)
  \/ \E id \in ChatIds, now \in Times, ok \in BOOLEAN :
        Settled /\ CreateChatInsert(Viewer, id, now, ok)
  \/ \E ok \in BOOLEAN : Settled /\ CreateChatWelcome(Viewer, ok)
  \/ Settled /\ MountChats
  \/ DeliverChats
  \/ Settled /\ ChatsStreamError
  \/ Settled /\ UnmountChats

SpecInbox ==
  /\ InitChat
  /\ [][NextInbox]_vars
  /\ WF_vars(DeliverChats)
  /\ WF_vars(Continue(Viewer))

\* No list screen is shown.
NoScreen == uhook.status = "off" /\ chook.status = "off" /\ hook.status = "off"

\* The three list hooks of one device, each mounted and unmounted by its
\* screen, while the user signs in anonymously and out and creates chats from
\* the new-chat screen. Every request is answered; any live listener may fail.
\* The hooks share no state: one screen is followed at a time.
NextStreams ==
  \/ OpContinue(Viewer)
  \/ CallSettle(Viewer)
  \/ ListenerSettle(Viewer)
  \/ Continue(Viewer)
  \/ OpSettled /\ RenderUsers
  \/ Calm /\ SignIn(Viewer)
  \/ \E u \in Uids : Calm /\ SignInAnonymously(Viewer, u, TRUE)
  \/ Calm /\ SignOut(Viewer)
  \/ Calm /\ SignOutTouch(Viewer, TRUE)
  \/ Calm /\ FirebaseSignOut(Viewer, TRUE)
  \/ \E k \in Slots : Calm /\ UpsertRead(Viewer, k)
  \/ \E k \in Slots : Calm /\ UpsertWrite(Viewer, k, TRUE)
  \/ \E k \in Slots : Calm /\ UpsertAck(Viewer, k)
  \/ \E u \in Uids : Calm /\ Settled /\ NewChat(Viewer, u)
  \/ Calm /\ Settled /\ CreateChatLookup(Viewer, FALSE)
  \/ \E id \in ChatIds : Calm /\ Settled /\ CreateChatInsert(Viewer, id, MaxTime, TRUE)
  \/ Calm /\ Settled /\ CreateChatWelcome(Viewer, TRUE)
  \/ Calm /\ Settled /\ NoScreen /\ MountUsers
  \/ Calm /\ Settled /\ DeliverUsers
  \/ Calm /\ Settled /\ UsersStreamError
  \/ Calm /\ Settled /\ UnmountUsers
  \/ Calm /\ Settled /\ NoScreen /\ MountChats
  \/ Calm /\ Settled /\ DeliverChats
  \/ Calm /\ Settled /\ ChatsStreamError
  \/ Calm /\ Settled /\ UnmountChats
  \/ \E c \in ChatIds : Calm /\ Settled /\ NoScreen /\ MountMessages(Viewer, c)
  \/ Calm /\ Settled /\ DeliverMessages
  \/ Calm /\ Settled /\ MessagesStreamError
  \/ Calm /\ Settled /\ UnmountMessages

SpecStreams == InitChat /\ [][NextStreams]_vars

\* The clock readings taken so far: the createdAt of the stored messages and
\* of the messages of the calls that are running.
ClockReadings ==
  { messages[m].createdAt : m \in DOMAIN messages }
    \cup { draft[p].createdAt : p \in { q \in Clients : draft[q] # NoDraft } }

\* new Date() on clocks that agree: no reading is earlier than one taken before.
ClockAtLeast(now) == \A t \in ClockReadings : now >= t

\* Two signed-in participants sending to their chat, the calls overlapping,
\* the clocks of the devices agreeing and every request being applied.
NextOverlap ==
  \/ \E p \in Clients : Continue(p)
  \/ \E p \in Clients, c \in RoomIds, text \in Texts, now \in Times :
        Settled /\ ClockAtLeast(now) /\ SendMessage(p, c, text, now)
  \/ \E p \in Clients : Settled /\ SendMessageAdd(p, TRUE)
  \/ \E p \in Clients : Settled /\ SendMessageUpdate(p, TRUE)
  \/ \E p \in Clients : Settled /\ SendMessageResolve(p)

SpecOverlap == InitFeed /\ [][NextOverlap]_vars

\* Two signed-in participants of a chat sending to it with sendMessage and
\* with the sendTestMessage utility; any write may fail.
NextTestData ==
  \/ \E p \in Clients : Continue(p)
  \/ \E p \in Clients, c \in ChatIds, text \in Texts, now \in Times :
        Settled /\ SendMessage(p, c, text, now)
  \/ \E p \in Clients, ok \in BOOLEAN : Settled /\ SendMessageAdd(p, ok)
  \/ \E p \in Clients, ok \in BOOLEAN : Settled /\ SendMessageUpdate(p, ok)
  \/ \E p \in Clients : Settled /\ SendMessageResolve(p)
  \/ \E p \in Clients, c \in ChatIds, u \in Uids, text \in Texts :
        Settled /\ SendTestMessage(p, c, u, text)
  \/ \E p \in Clients, now \in Times, ok \in BOOLEAN : Settled /\ SendTestMessageAdd(p, now, ok)
  \/ \E p \in Clients, now \in Times, ok \in BOOLEAN :
        Settled /\ SendTestMessageUpdate(p, now, ok)

SpecTestData == InitFeed /\ [][NextTestData]_vars

\* createChat and sendMessage called directly, signed in or not, each client
\* signing in and out as its own user between its calls.
NextCalls ==
  \/ \E p \in Clients : Continue(p)
  \/ \E p \in Clients, u \in Uids \cup {NoUser} :
        Settled /\ u \in {HomeUser(p), NoUser} /\ AuthStateChanged(p, u)
  \/ \E p \in Clients, ids \in IdLists : Settled /\ CreateChat(p, ids)
  \/ \E p \in Clients, failed \in BOOLEAN : Settled /\ CreateChatLookup(p, failed)
  \/ \E p \in Clients, id \in RoomIds, ok \in BOOLEAN :
        Settled /\ CreateChatInsert(p, id, MaxTime, ok)
  \/ \E p \in Clients, ok \in BOOLEAN : Settled /\ CreateChatWelcome(p, ok)
  \/ \E p \in Clients, c \in ChatIds, text \in Texts :
        Settled /\ SendMessage(p, c, text, MaxTime)
  \/ \E p \in Clients, ok \in BOOLEAN : Settled /\ SendMessageAdd(p, ok)
  \/ \E p \in Clients, ok \in BOOLEAN : Settled /\ SendMessageUpdate(p, ok)
  \/ \E p \in Clients : Settled /\ SendMessageResolve(p)

SpecCalls == InitChat /\ [][NextCalls]_vars

\* The AuthProvider of one device. Every request is answered, with its result
\* or with an error, and a continuation whose await has been answered runs.
NextSession ==
  \/ OpContinue(Viewer)
  \/ CallSettle(Viewer)
  \/ ListenerSettle(Viewer)
  \/ OpSettled /\ SignIn(Viewer)
  \/ \E u \in Uids \cup {NoUser}, ok \in BOOLEAN :
       OpSettled /\ SignInAnonymously(Viewer, u, ok)
  \/ OpSettled /\ SignInWithEmail(Viewer)
  \/ \E u \in Uids \cup {NoUser}, ok \in BOOLEAN :
       OpSettled /\ SignInWithEmailAndPassword(Viewer, u, ok)
  \/ \E n \in Names : OpSettled /\ UpdateDisplayName(Viewer, n)
  \/ \E ok \in BOOLEAN : OpSettled /\ UpdateProfileDone(Viewer, ok)
  \/ OpSettled /\ SignOut(Viewer)
  \/ \E ok \in BOOLEAN : OpSettled /\ SignOutTouch(Viewer, ok)
  \/ \E ok \in BOOLEAN : OpSettled /\ FirebaseSignOut(Viewer, ok)
  \/ \E k \in Slots : OpSettled /\ UpsertRead(Viewer, k)
  \/ \E k \in Slots, ok \in BOOLEAN : OpSettled /\ UpsertWrite(Viewer, k, ok)
  \/ \E k \in Slots : OpSettled /\ UpsertAck(Viewer, k)

\* The steps that are not the user's: answers of the backends and continuations.
SessionAnswers ==
  \/ OpContinue(Viewer)
  \/ CallSettle(Viewer)
  \/ ListenerSettle(Viewer)
  \/ \E u \in Uids \cup {NoUser}, ok \in BOOLEAN :
       OpSettled /\ SignInAnonymously(Viewer, u, ok)
  \/ \E u \in Uids \cup {NoUser}, ok \in BOOLEAN :
       OpSettled /\ SignInWithEmailAndPassword(Viewer, u, ok)
  \/ \E ok \in BOOLEAN : OpSettled /\ UpdateProfileDone(Viewer, ok)
  \/ \E ok \in BOOLEAN : OpSettled /\ SignOutTouch(Viewer, ok)
  \/ \E ok \in BOOLEAN : OpSettled /\ FirebaseSignOut(Viewer, ok)
  \/ \E k \in Slots : OpSettled /\ UpsertRead(Viewer, k)
  \/ \E k \in Slots, ok \in BOOLEAN : OpSettled /\ UpsertWrite(Viewer, k, ok)
  \/ \E k \in Slots : OpSettled /\ UpsertAck(Viewer, k)

SpecSession ==
  /\ InitChat
  /\ [][NextSession]_vars
  /\ WF_vars(SessionAnswers)

\* The AuthProvider of one device whose hardware id changes once, between two
\* runs of the app.
NextDevice ==
  \/ OpContinue(Viewer)
  \/ CallSettle(Viewer)
  \/ ListenerSettle(Viewer)
  \/ OsUpdate(Viewer)
  \/ OpSettled /\ SignIn(Viewer)
  \/ \E u \in Uids \cup {NoUser}, ok \in BOOLEAN :
       OpSettled /\ SignInAnonymously(Viewer, u, ok)
  \/ OpSettled /\ SignInWithEmail(Viewer)
  \/ \E u \in Uids \cup {NoUser}, ok \in BOOLEAN :
       OpSettled /\ SignInWithEmailAndPassword(Viewer, u, ok)
  \/ OpSettled /\ SignOut(Viewer)
  \/ \E ok \in BOOLEAN : OpSettled /\ SignOutTouch(Viewer, ok)
  \/ \E ok \in BOOLEAN : OpSettled /\ FirebaseSignOut(Viewer, ok)
  \/ \E k \in Slots : OpSettled /\ UpsertRead(Viewer, k)
  \/ \E k \in Slots, ok \in BOOLEAN : OpSettled /\ UpsertWrite(Viewer, k, ok)
  \/ \E k \in Slots : OpSettled /\ UpsertAck(Viewer, k)

SpecDevice == InitChat /\ [][NextDevice]_vars

\* ------------------------------------------------------ identity: claims

NoRepeat(s) == \A i, j \in DOMAIN s : s[i] = s[j] => i = j

SignInResolved(p) == op[p].kind \in {"signIn", "email"} /\ op[p].pc = "resolved"

\* C9: no profile's devices list holds a fingerprint twice, and when signIn or
\* signInWithEmail has resolved on a device, the profile of the identity it
\* returned exists and its devices list holds that device's fingerprint.
C9_DevicesListed ==
  /\ \A u \in Uids : NoRepeat(users[u].devices)
  /\ \A p \in Clients :
       SignInResolved(p) =>
         /\ users[op[p].uid].exists
         /\ Includes(users[op[p].uid].devices, DeviceId(p))

\* A stored display name that is a name somebody set, not the placeholder.
NameSet(u) == users[u].displayName \notin {"", Placeholder(u)}

\* C10: no step removes a fingerprint from a profile's devices list, and no
\* step replaces a stored display name by the placeholder.
C10_NeverDestructive ==
  [][ \A u \in Uids :
        /\ Range(users[u].devices) \subseteq Range(users'[u].devices)
        /\ NameSet(u) => users'[u].displayName # Placeholder(u) ]_vars

\* ------------------------------------------------------- screens: claims

Listed == { uhook.users[i].uid : i \in DOMAIN uhook.users }

\* C11: the list useUsers holds never contains the id of the identity the
\* device is signed in as, at every snapshot and across sign-out followed by
\* sign-in as another identity while the hook stays mounted.
C11_OwnIdNeverListed == currentUser[Viewer] \notin Listed

\* The device has signed in as a second identity; its own profile is in the
\* query's result and the list delivered holds the other profile only.
C11_Witness ==
  /\ uhook.status = "live" /\ ~uhook.loading
  /\ currentUser[Viewer] # NoUser
  /\ users[currentUser[Viewer]].displayName # ""
  /\ Listed # {}
  /\ \A u \in Listed : account[u] # "none"
  /\ calls = MaxCalls

\* A createOrUpdateUserDocument call without a displayName override.
NoOverride(k) == ups[Viewer][k].extra # "name"

\* C12: no display name is empty at read time. getUserById answers, and
\* useUsers lists, a non-empty name, the placeholder of the id when the profile
\* stores none; a createOrUpdateUserDocument call without a displayName
\* override writes a non-empty name, the placeholder of the id when neither
\* the auth user nor the profile it read has one.
C12_ReadNames ==
  /\ \A u \in Uids :
       users[u].exists =>
         /\ GetUserById(u).displayName # ""
         /\ users[u].displayName = "" => GetUserById(u).displayName = Placeholder(u)
  /\ \A i \in DOMAIN uhook.users :
       /\ uhook.users[i].displayName # ""
       /\ uhook.users[i].displayName \in Names \cup {Placeholder(uhook.users[i].uid)}

C12_WrittenNames ==
  \A k \in Slots :
    NoOverride(k) =>
      /\ ups[Viewer][k].pc = "read" /\ ups'[Viewer][k].pc = "write" =>
           /\ ups'[Viewer][k].data.displayName # ""
           /\ localName[Viewer] = "" /\ View(Viewer, ups[Viewer][k].uid).displayName = ""
                => ups'[Viewer][k].data.displayName = Placeholder(ups[Viewer][k].uid)
      /\ ups[Viewer][k].pc = "write" /\ ups'[Viewer][k].pc = "ack" =>
           users'[ups[Viewer][k].uid].displayName # ""

C12_DisplayNameNeverEmpty == [](C12_ReadNames) /\ [][C12_WrittenNames]_vars

\* A profile without a stored name exists (getUserById answers the
\* placeholder) and a write carrying the placeholder is on its way.
C12_Witness ==
  /\ \E u \in Uids : users[u].exists /\ users[u].displayName = ""
  /\ \E k \in Slots :
       /\ ups[Viewer][k].pc = "write" /\ NoOverride(k)
       /\ ups[Viewer][k].data.displayName = Placeholder(ups[Viewer][k].uid)

\* C13: a subscription is released when its screen goes away or its
\* dependency changes: the contacts screen's listener is, once the screen has
\* rendered, the one of the current identity, the new-chat screen has no listener registered once it is
\* gone, at most the one of its current user while it is shown, and no
\* snapshot reaches a listener of an effect run that is over.
C13_ReleasedOnTeardown ==
  /\ uhook.status = "live" /\ uhook.seen = ContextValue => uhook.me = currentUser[Viewer]
  /\ ~nhook.mounted => nhook.subs = <<>>
  /\ Len(nhook.subs) <= 1
  /\ \A i \in DOMAIN nhook.subs : nhook.subs[i] = nhook.user
  /\ ~nhook.late

\* ------------------------------------------------- AuthProvider: claims

\* signIn or signInWithEmail is at its request to the auth backend.
AtAuth(p) == op[p].kind \in {"signIn", "email"} /\ op[p].pc = "auth"

\* C14: when the auth backend refuses signIn or signInWithEmail, the call
\* rejects after that one attempt, no profile document is written or about to
\* be, loading is false and the context user and the session are as before.
C14_AuthFailureSurfaces ==
  [][ \A p \in Clients :
        AtAuth(p) /\ op'[p] # op[p] /\ currentUser'[p] = currentUser[p] =>
          /\ op'[p].pc = "rejected"
          /\ op'[p].tries = 1
          /\ users' = users /\ ups' = ups /\ queue' = queue
          /\ ~loading'[p]
          /\ ctxUser' = ctxUser ]_vars

\* A sign-in has just been refused on a device while a profile exists and
\* the other device is signed in.
C14_Witness ==
  \E p \in Clients :
    /\ op[p].kind \in {"signIn", "email"} /\ op[p].pc = "rejected"
    /\ op[p].uid = NoUser /\ op[p].tries = 1
    /\ \E u \in Uids : users[u].exists
    /\ \E q \in Clients : ctxUser[q] # NoUser

\* ----------------------------------------------------- useChats: claims

\* The hook holds the conversations of u as its live listener delivered them.
ChatsDelivered(u) ==
  /\ chook.status = "live" /\ chook.me = u
  /\ ~chook.loading
  /\ chook.chats = SnapshotChats(u)

\* C19: while useChats stays mounted and the device stays signed in as an
\* identity, the hook eventually holds the conversations of that identity in
\* the order of updatedAt descending, unless its stream reported an error.
C19_ChatsEventuallyDelivered ==
  \A u \in Uids :
    (chook.status # "off" /\ currentUser[Viewer] = u)
      ~> \/ chook.status = "off" \/ currentUser[Viewer] # u
         \/ chook.error
         \/ ChatsDelivered(u)

\* The same for a hook whose effect ran under the identity that is signed in.
C19_DeliveredWhenMountedSignedIn ==
  \A u \in Uids :
    (chook.status = "live" /\ chook.me = u /\ currentUser[Viewer] = u)
      ~> \/ chook.status # "live" \/ currentUser[Viewer] # u
         \/ ChatsDelivered(u)

\* The hook was mounted before anybody signed in, the device is signed in now
\* and a conversation of that identity exists.
C19_MountedBeforeAuth ==
  /\ chook.status = "idle"
  /\ currentUser[Viewer] # NoUser
  /\ ChatsOf(currentUser[Viewer]) # {}

\* ------------------------------------------------- conversation: claims

\* C22: no step removes a conversation or changes its participants, its
\* participantNames or its createdAt; a step that changes a conversation is
\* the update of a sendMessage call and changes lastMessage and updatedAt only.
C22_SendTouchesSummaryOnly ==
  [][ \A c \in DOMAIN chats :
        /\ c \in DOMAIN chats'
        /\ chats'[c].participants = chats[c].participants
        /\ chats'[c].participantNames = chats[c].participantNames
        /\ chats'[c].createdAt = chats[c].createdAt
        /\ chats'[c] # chats[c] =>
             \E p \in Clients : pc[p] = "smUpdate" /\ target[p] = c /\ pc'[p] = "smAck" ]_vars

\* A conversation holds the last message of a sendMessage call, and the name
\* it keeps for a participant is no longer the name that participant has.
C22_Witness ==
  \E c \in DOMAIN chats :
    /\ chats[c].lastMessage # NoLastMessage
    /\ \E u \in DOMAIN chats[c].participantNames :
         chats[c].participantNames[u] # DisplayNameOf(u)

\* A sendMessage call to the chat has not completed.
SendRunning(c) ==
  \E p \in Clients : target[p] = c /\ pc[p] \in {"smAdd", "smUpdate", "smAck"}

\* The messages users sent to the chat.
SentTo(c) == { m \in MessagesOf(c) : messages[m].senderId \in Uids }

\* The chat's lastMessage and updatedAt carry the greatest createdAt of the
\* messages sent to it.
SummaryIsNewest(c) ==
  /\ chats[c].lastMessage # NoLastMessage
  /\ \A m \in SentTo(c) :
       /\ chats[c].lastMessage[1].createdAt >= messages[m].createdAt
       /\ chats[c].updatedAt >= messages[m].createdAt
  /\ chats[c].updatedAt = chats[c].lastMessage[1].createdAt

\* C23: no step lowers a conversation's updatedAt, and after a step that
\* leaves no sendMessage call to a conversation running, its lastMessage and
\* updatedAt are those of the newest message sent to it.
C23_LastMessageIsNewest ==
  [][ \A c \in DOMAIN chats :
        /\ chats'[c].updatedAt >= chats[c].updatedAt
        /\ (~SendRunning(c) /\ SentTo(c) # {})' => SummaryIsNewest(c)' ]_vars

\* The message a lastMessage summary was taken from is stored for the chat.
SummaryHasMessage(c) ==
  \E m \in MessagesOf(c) :
    /\ messages[m].text = chats[c].lastMessage[1].text
    /\ messages[m].senderId = chats[c].lastMessage[1].senderId
    /\ messages[m].createdAt = chats[c].lastMessage[1].createdAt

\* C24: the lastMessage of a conversation, when present, has the text, the
\* sender id and the creation timestamp of a message stored for that
\* conversation.
C24_LastMessageExists ==
  \A c \in DOMAIN chats :
    chats[c].lastMessage # NoLastMessage => SummaryHasMessage(c)

\* A call has failed between its two writes and another has completed: the
\* chat has a lastMessage and holds a message newer than it.
C24_AfterFailedUpdate ==
  \E c \in DOMAIN chats :
    /\ chats[c].lastMessage # NoLastMessage
    /\ \E p \in Clients : pc[p] = "rejected"
    /\ \E m \in SentTo(c) : messages[m].createdAt > chats[c].lastMessage[1].createdAt

\* C25: every stored message's chatId is the id of a stored conversation, and
\* the insert of a sendMessage call whose conversation does not exist is
\* refused: the call rejects and stores nothing.
C25_NoOrphanMessages ==
  /\ [](\A m \in DOMAIN messages : messages[m].chatId \in DOMAIN chats)
  /\ [][ \A p \in Clients :
           pc[p] = "smAdd" /\ target[p] \notin DOMAIN chats /\ pc'[p] # pc[p] =>
             pc'[p] = "rejected" /\ messages' = messages /\ chats' = chats ]_vars

\* A sendMessage call to a conversation id that does not exist is at its
\* insert, while a conversation with a message a user sent is stored.
C25_Witness ==
  /\ \E p \in Clients :
       pc[p] = "smAdd" /\ currentUser[p] # NoUser /\ target[p] \notin DOMAIN chats
  /\ \E c \in DOMAIN chats : SentTo(c) # {}

C27_SignedOutCallsFail ==
  [][ \A p \in Clients :
        pc[p] = "idle" /\ currentUser[p] = NoUser /\ pc'[p] # "idle" =>
          /\ pc'[p] = "rejected"
          /\ chats' = chats /\ messages' = messages
          /\ via'[p] = "none" /\ target'[p] = NoChat /\ draft'[p] = NoDraft
          /\ sortedIds'[p] = <<>> ]_vars

\* A call made without a session has just been rejected while a conversation
\* and a message a user sent are stored.
C27_Witness ==
  \E p \in Clients :
    /\ pc[p] = "rejected" /\ currentUser[p] = NoUser
    /\ \E c \in DOMAIN chats : SentTo(c) # {}

\* ------------------------------------------------ loading flag: claims

\* signIn has returned or thrown on the Viewer's device.
SignInOver == op[Viewer].kind = "signIn" /\ op[Viewer].pc \in {"resolved", "rejected"}

\* C28: once a signIn call has returned or thrown, the context's loading flag
\* is false or becomes false.
C28_SignInEndsLoading == SignInOver ~> ~loading[Viewer]

\* The same for the calls that asked the auth backend for a new identity.
C28_MintedOrFailedEndsLoading ==
  (SignInOver /\ (op[Viewer].tries = 1 \/ op[Viewer].pc = "rejected")) ~> ~loading[Viewer]

\* signIn has returned the user of the session that existed, loading is true
\* and nothing is running that would reset it.
C28_StuckLoading ==
  /\ SignInOver /\ op[Viewer].pc = "resolved" /\ op[Viewer].tries = 0
  /\ loading[Viewer]
  /\ ListenerIdle(Viewer)

\* The auth-state listener of the Viewer's device is handling a sign-in as u.
ListenerRuns(u) ==
  ups[Viewer]["listener"].pc # "off" /\ ups[Viewer]["listener"].uid = u

\* C29: the context comes to expose a user only in the step that follows an
\* attempted profile write for that user (the listener's, answered with
\* success or failure, or the successful one of a profile update), and every
\* run of the auth-state listener for a signed-in user ends with that user
\* exposed and loading false, whether its profile write succeeded or failed.
C29_ExposedAfterUpsertAttempt ==
  /\ [][ \A u \in Uids :
           ctxUser'[Viewer] = u /\ ctxUser[Viewer] # u =>
             \/ /\ ListenerRuns(u)
                /\ ups[Viewer]["listener"].pc \in {"done", "failed"}
                /\ ~loading'[Viewer]
             \/ /\ op[Viewer].kind \in {"name", "photo"}
                /\ ups[Viewer]["call"].pc = "done" /\ ups[Viewer]["call"].uid = u ]_vars
  /\ \A u \in Uids : ListenerRuns(u) ~> (ctxUser[Viewer] = u /\ ~loading[Viewer])

\* The context exposes a user, with loading false, whose profile document was
\* never written: every profile write for it failed.
C29_Witness ==
  /\ ctxUser[Viewer] # NoUser /\ ~loading[Viewer]
  /\ ctxUser[Viewer] = currentUser[Viewer]
  /\ ~users[ctxUser[Viewer]].exists
  /\ ListenerIdle(Viewer) /\ queue[Viewer] = <<>>

\* --------------------------------------------- device fingerprint: claims

\* C30: once device_id is stored on a device no step changes or removes it,
\* and every getDeviceId call made after that (by signIn, or by a profile
\* write that carries devices) returns the stored value.
C30_DeviceIdWriteOnce ==
  /\ [][ \A p \in Clients :
           asyncStorage[p].device_id # NoDevice =>
             asyncStorage'[p].device_id = asyncStorage[p].device_id ]_vars
  /\ [](\A p \in Clients :
          /\ op[p].kind = "signIn" => op[p].deviceId = asyncStorage[p].device_id
          /\ \A k \in Slots :
               ups[p][k].pc = "write" /\ ups[p][k].data.hasDevices =>
                 Includes(ups[p][k].data.devices, asyncStorage[p].device_id))

\* A signIn after a sign-in, a sign-out and a change of the hardware id: its
\* getDeviceId returned the id stored by the first call, not the id the
\* device would compose now.
C30_Witness ==
  /\ op[Viewer].kind = "signIn" /\ calls = MaxCalls
  /\ \E u \in Uids : account[u] # "none"
  /\ currentUser[Viewer] = NoUser
  /\ asyncStorage[Viewer].user_auth_state = NoUser
  /\ op[Viewer].deviceId = asyncStorage[Viewer].device_id
  /\ op[Viewer].deviceId # hardware[Viewer]

\* ------------------------------------------------ new-chat list: claims

\* C21: the list the new-chat screen shows, delivered by the listener of its
\* current effect run, holds no entry made from the profile document of the
\* user the screen was rendered for.
C21_OwnProfileNeverListed ==
  nhook.mounted /\ nhook.user # NoUser /\ ~nhook.loading /\ ~nhook.late =>
    \A e \in nhook.users : e.doc # nhook.user

\* ------------------------------------------------ stream errors: claims

\* C20: when the listener of useUsers, useChats or useMessages ends with an
\* error, the hook has its error set and loading false and keeps the list it
\* held; from then on the hook delivers nothing and registers no listener
\* until it is unmounted or, for useUsers, its effect runs again because the
\* signed-in identity changed.
C20_StreamErrorSurfaces ==
  [][ /\ uhook.status = "live" /\ uhook'.status = "ended" =>
           uhook'.error /\ ~uhook'.loading /\ uhook'.users = uhook.users
      /\ chook.status = "live" /\ chook'.status = "ended" =>
           chook'.error /\ ~chook'.loading /\ chook'.chats = chook.chats
      /\ hook.status = "live" /\ hook'.status = "error" =>
           hook'.error /\ ~hook'.loading /\ hook'.messages = hook.messages
      /\ uhook.status = "ended" =>
           \/ uhook'.status = "off"
           \/ uhook'.me # uhook.me
           \/ uhook' = [uhook EXCEPT !.seen = uhook'.seen]
      /\ chook.status = "ended" => chook' = chook \/ chook'.status = "off"
      /\ hook.status = "error" => hook' = hook \/ hook'.status = "off" ]_vars

\* useChats has ended with an error while it held a chat, and a chat created
\* since is not in its list.
C20_Witness ==
  /\ chook.status = "ended" /\ chook.error /\ ~chook.loading
  /\ chook.chats # <<>>
  /\ chook.chats # SnapshotChats(chook.me)

\* useUsers has ended with an error while it listed a user.
C20_UsersEnded ==
  uhook.status = "ended" /\ uhook.error /\ ~uhook.loading /\ uhook.users # <<>>

\* useMessages has ended with an error while it held a message.
C20_MessagesEnded ==
  hook.status = "error" /\ hook.error /\ ~hook.loading /\ hook.messages # <<>>

\* ------------------------------------------------------ signIn: claims

\* The profiles whose devices list holds the fingerprint of device p.
SharingDevice(p) == UsersWithDevice(DeviceId(p))

\* C18: signIn called with a session goes on with the identity of that session
\* and mints none, and resolves with that identity; signIn called without a
\* session signs in as an identity that no account and no profile existed for,
\* whatever findUserByDeviceId found; an account comes into being only at the
\* answer of a sign-in request.
C18_SignInMintsUnlessSession ==
  [][ /\ \A p \in Clients :
           /\ op[p].kind = "none" /\ op'[p].kind = "signIn" =>
                IF currentUser[p] # NoUser
                THEN /\ op'[p].pc = "upsert" /\ op'[p].uid = currentUser[p]
                     /\ account' = account /\ currentUser' = currentUser
                ELSE /\ op'[p].pc = "auth"
                     /\ op'[p].found = FindUserByDeviceId(DeviceId(p))
           /\ op[p].kind = "signIn" /\ op[p].pc = "auth" /\ op'[p].pc = "upsert" =>
                /\ account[op'[p].uid] = "none" /\ account'[op'[p].uid] = "anon"
                /\ ~users[op'[p].uid].exists
                /\ op'[p].uid # op[p].found
                /\ currentUser'[p] = op'[p].uid
           /\ op[p].kind = "signIn" /\ op[p].pc = "upsert" /\ op'[p].pc = "resolved" =>
                /\ op'[p].uid = currentUser[p]
                /\ op[p].tries = 0 => account' = account
      /\ account' # account =>
           \E p \in Clients : AtAuth(p) /\ op'[p].pc = "upsert" ]_vars

\* signIn without a session has resolved on a device whose fingerprint
\* findUserByDeviceId had found in an earlier profile: it returned another
\* identity, and both profiles now hold the fingerprint.
C18_Witness ==
  \E p \in Clients :
    /\ op[p].kind = "signIn" /\ op[p].pc = "resolved" /\ op[p].tries = 1
    /\ op[p].found # NoUser /\ op[p].uid # op[p].found
    /\ {op[p].found, op[p].uid} \subseteq SharingDevice(p)

\* signIn called with a session has resolved with the identity of the session.
C18_SessionKept ==
  \E p \in Clients :
    /\ op[p].kind = "signIn" /\ op[p].pc = "resolved" /\ op[p].tries = 0
    /\ op[p].uid = currentUser[p]

\* ------------------------------------------------ access policy: claims

IsParticipant(uid, c) ==
  uid # NoUser /\ c \in DOMAIN chats /\ Includes(chats[c].participants, uid)

\* C15, the guards: a step that adds a chat is a createChat of a caller who is
\* in the new chat's participants; a step that changes a chat is a sendMessage
\* of a caller in its stored participants; a step that adds a message is a
\* createChat or sendMessage of a participant of the message's existing chat;
\* a lookup that answers a chat is made by one of that chat's participants.
C15_Guards ==
  /\ \A id \in DOMAIN chats' \ DOMAIN chats :
       \E p \in Clients :
         /\ pc[p] = "ccInsert" /\ target'[p] = id
         /\ currentUser[p] # NoUser
         /\ Includes(chats'[id].participants, currentUser[p])
  /\ \A id \in DOMAIN chats :
       chats'[id] # chats[id] =>
         \E p \in Clients :
           pc[p] = "smUpdate" /\ target[p] = id /\ IsParticipant(currentUser[p], id)
  /\ \A mid \in DOMAIN messages' \ DOMAIN messages :
       \E p \in Clients :
         /\ pc[p] \in {"ccWelcome", "smAdd"}
         /\ messages'[mid] = draft[p]
         /\ IsParticipant(currentUser[p], messages'[mid].chatId)
  /\ \A p \in Clients :
       pc[p] \in {"scLookup", "ccLookup"} /\ ret'[p] # NoChat =>
         IsParticipant(currentUser[p], ret'[p])

\* C15, the application's own writes: with the caller a participant of the
\* chat written to, the request createChat or sendMessage is about to issue
\* passes the rule of its collection.
C15_OwnWritesPass ==
  \A p \in Clients :
    /\ pc[p] = "ccInsert" /\ Includes(sortedIds[p], currentUser[p]) /\ currentUser[p] # NoUser
         => \A now \in Times : ChatsAllowCreate(currentUser[p], ChatData(p, now))
    /\ pc[p] \in {"ccWelcome", "smAdd"} /\ IsParticipant(currentUser[p], target[p])
         => MessagesAllowCreate(currentUser[p], draft[p])
    /\ pc[p] = "smUpdate" /\ IsParticipant(currentUser[p], target[p])
         => ChatsAllowWrite(currentUser[p], target[p])

SystemMessagesOf(c) ==
  { mid \in DOMAIN messages : messages[mid].chatId = c /\ messages[mid].senderId = SystemSender }

\* C16, every state: no chat has more than one system message.
C16_OneSystemMessage ==
  \A c \in DOMAIN chats : Cardinality(SystemMessagesOf(c)) <= 1

\* C16, every step: createChat's insert adds one chat, with createdAt equal to
\* updatedAt, and no message; its next write adds one message, sent by
\* 'system', for that chat and with the chat's creation time; it then returns
\* that chat's id, and the chat has one system message (messages are never
\* removed, so it keeps exactly that one).
C16_CreateSteps ==
  \A p \in Clients :
    /\ pc[p] = "ccInsert" /\ pc'[p] = "ccWelcome" =>
         /\ \E id \in ChatIds : DOMAIN chats' = DOMAIN chats \cup {id} /\ id \notin DOMAIN chats
                                  /\ target'[p] = id
         /\ chats'[target'[p]].createdAt = chats'[target'[p]].updatedAt
         /\ messages' = messages
    /\ pc[p] = "ccWelcome" /\ pc'[p] = "returned" =>
         /\ \E mid \in MsgIds :
              /\ mid \notin DOMAIN messages
              /\ DOMAIN messages' = DOMAIN messages \cup {mid}
              /\ messages'[mid].senderId = SystemSender
              /\ messages'[mid].chatId = target[p]
              /\ messages'[mid].createdAt = chats[target[p]].createdAt
         /\ ret'[p] = target[p]
         /\ Cardinality({ mid \in DOMAIN messages' :
                            /\ messages'[mid].chatId = target[p]
                            /\ messages'[mid].senderId = SystemSender }) = 1
         /\ chats' = chats

C16_CreatedWithWelcome == [](C16_OneSystemMessage) /\ [][C16_CreateSteps]_vars

\* createChat has returned a chat that holds its system message and a
\* message a user sent.
C16_Witness ==
  \E p \in Clients :
    /\ pc[p] = "returned" /\ ret[p] \in DOMAIN chats
    /\ Cardinality(SystemMessagesOf(ret[p])) = 1
    /\ \E mid \in DOMAIN messages :
         messages[mid].chatId = ret[p] /\ messages[mid].senderId \in Uids

\* C17, every step: sendMessage(c, text) builds its message with the identity
\* signed in at that moment as sender, chat c, the text given and a non-empty
\* sender name; the message it adds is that message, and the device is still
\* signed in as its sender.
C17_SendSteps ==
  \A p \in Clients :
    /\ pc[p] = "idle" /\ pc'[p] = "smAdd" =>
         /\ draft'[p].senderId = currentUser[p] /\ currentUser[p] \in Uids
         /\ draft'[p].chatId = target'[p]
         /\ draft'[p].text \in Texts
         /\ draft'[p].senderName # ""
    /\ pc[p] = "smAdd" /\ pc'[p] = "smUpdate" =>
         /\ \E mid \in MsgIds :
              /\ mid \notin DOMAIN messages
              /\ DOMAIN messages' = DOMAIN messages \cup {mid}
              /\ messages'[mid] = draft[p]
         /\ draft[p].senderId = currentUser[p]

\* C17, every state: a stored message is the system's or carries the id of a
\* user as sender, and has a sender name.
C17_Senders ==
  \A mid \in DOMAIN messages :
    /\ messages[mid].senderId \in Uids \cup {SystemSender}
    /\ messages[mid].senderName # ""

====
